---------------------------- MODULE Spec2Model ----------------------------
(***************************************************************************)
(* Model of the ARView scan session of react-native-ar (iOS).              *)
(*                                                                         *)
(* Two variants of ARView.swift accumulate a point cloud:                  *)
(*   "raycast"      src/unnamed/part_001 (points + camera transforms +     *)
(*                  normals, cap 2000, pose-aware triangulation on export) *)
(*   "featurePoint" src/ios/ARinReactNative/ARView.swift, second class     *)
(*                  (points only, cap 8000 scanning / 5000 idle)           *)
(* The variable `variant` selects which of the two programs is running.    *)
(*                                                                         *)
(* Lengths are integers in centimetres (0.12 m = 12) and the arithmetic is *)
(* exact.  A point sample is a record [id, p]: p is the SIMD3 position the *)
(* code stores, id = <<frame, index>> names the frame and the index in the *)
(* frame that produced it (the code does not store it; it is used to state *)
(* the properties).                                                        *)
(***************************************************************************)
EXTENDS Integers, Sequences, FiniteSets, TLC

\* ---------------------------------------------------------------- bounds
\* Scaled-down stand-ins of the eviction limits (2000 / 2000 / 8000 / 5000).
ScanCapRaycast == 3
IdleCapRaycast == 3
ScanCapFeature == 4
IdleCapFeature == 3
\* Frames that deliver at least one point, per behaviour.
MaxFrames == 3
\* Points a raycast frame delivers at most.
MaxBatch == 2
\* Raw feature points a frame carries at most (feature-point variant).
MaxRaw == 4
\* Mesh anchors ARKit adds at most (LiDAR devices).
MaxAnchors == 2

\* ------------------------------------------------------ program constants
ScanInterval == 2
IdleInterval == 10
IdleRaycastInterval == 60
IdleFeatureInterval == 20
ScanSampleStride == 3
IdleSampleStride == 5
StrideDivisor == 1000
StrideLimit == 1000
SimpleSeedLimit == 200
maxEdgeLength2D == 12
maxDepthDiff == 15
maxEdge3D == 15
minAreaPose == 2
maxDistance == 10
minAreaSimple == 1
searchRadius == 5
neighborRadius == 15

Min(a, b) == IF a < b THEN a ELSE b
Max(a, b) == IF a > b THEN a ELSE b

\* ------------------------------------------------------------- SIMD3 math
Sub(a, b) == <<a[1] - b[1], a[2] - b[2], a[3] - b[3]>>
Add(a, b) == <<a[1] + b[1], a[2] + b[2], a[3] + b[3]>>
Scale(k, a) == <<k * a[1], k * a[2], k * a[3]>>
Dot(a, b) == a[1] * b[1] + a[2] * b[2] + a[3] * b[3]
Cross(a, b) == <<a[2] * b[3] - a[3] * b[2],
                 a[3] * b[1] - a[1] * b[3],
                 a[1] * b[2] - a[2] * b[1]>>
\* squared length; simd_distance(a, b) < r is Norm2(Sub(a, b)) < r * r
Norm2(a) == Dot(a, a)
Dist2(a, b) == Norm2(Sub(a, b))
Zero3 == <<0, 0, 0>>
Up3 == <<0, 1, 0>>

\* ------------------------------------------------------- sequence helpers
RECURSIVE SortByKey(_, _)
\* Indices of S in ascending key order, ties in ascending index order
\* (Array.sort on a list built in ascending index order).
SortByKey(S, k) ==
  IF S = {} THEN <<>>
  ELSE LET m == CHOOSE a \in S :
                  \A b \in S : k[a] < k[b] \/ (k[a] = k[b] /\ a <= b)
       IN  <<m>> \o SortByKey(S \ {m}, k)

RECURSIVE PairsFrom(_, _, _, _)
PairsFrom(j, k, a, b) ==
  IF j >= a THEN <<>>
  ELSE IF k >= b THEN PairsFrom(j + 1, j + 2, a, b)
  ELSE <<<<j, k>>>> \o PairsFrom(j, k + 1, a, b)

\* for j in 0..<a { for k in (j+1)..<b { ... } }, in loop order
LoopPairs(a, b) == PairsFrom(0, 1, a, b)

RECURSIVE ConcatUpTo(_, _, _)
\* f[i] \o f[i+1] \o ... \o f[n-1]
ConcatUpTo(f, i, n) == IF i >= n THEN <<>> ELSE f[i] \o ConcatUpTo(f, i + 1, n)

\* removeLast(k): the eviction taken from the wrong end
DropLast(s, k) == SubSeq(s, 1, Len(s) - k)

\* removeFirst(k)
DropFirst(s, k) == SubSeq(s, k + 1, Len(s))

Positions(points) == [i \in 1..Len(points) |-> points[i].p]


\* ------------------------------------------------- stride triangulation
\* generateFeaturePointScanData, raycast variant: the faces of the result.
StrideFacesRaycast(n) ==
  IF n < 3 THEN <<>>
  ELSE LET strideValue == Max(1, n \div StrideDivisor)
           upperBound == n - 2 * strideValue
           to == Min(upperBound, StrideLimit)
           \* stride(from: strideValue, to: to, by: strideValue)
           steps == IF to > strideValue THEN (to - 1) \div strideValue ELSE 0
           cand == [k \in 1..steps |-> k * strideValue]
           kept == SelectSeq(cand, LAMBDA i : i + 2 * strideValue < n)
       IN  IF upperBound > strideValue
           THEN [k \in 1..Len(kept) |->
                   <<kept[k], kept[k] + strideValue, kept[k] + 2 * strideValue>>]
           ELSE <<>>

\* generateFeaturePointScanData, feature-point variant: the bounds of the
\* range stride..<min(count - 2 * stride, 1000).
StrideLowerFeature(n) == Max(1, n \div StrideDivisor)
\* the upper bound one stride too far: count - stride
StrideUpperOneStride(n) == Min(n - StrideLowerFeature(n), StrideLimit)
StrideUpperFeature(n) == Min(n - 2 * StrideLowerFeature(n), StrideLimit)

\* A Swift range a..<b with a > b is a runtime trap.
StrideTrapFeature(n) == StrideLowerFeature(n) > StrideUpperFeature(n)

StrideFacesFeature(n) ==
  LET stride == StrideLowerFeature(n)
      range == [k \in 1..(StrideUpperFeature(n) - stride) |-> stride + k - 1]
      kept == SelectSeq(range, LAMBDA i : i % stride = 0)
  IN  [k \in 1..Len(kept) |-> <<kept[k], kept[k] + stride, kept[k] + 2 * stride>>]

\* ------------------------------------------------------- triangle area
\* the degenerate-triangle guard left out
AreaUnchecked(P, a, b, c, minArea) == TRUE

\* length(cross(v1, v2)) * 0.5 > minArea for the triangle (a, b, c), 0-based
AreaExceeds(P, a, b, c, minArea) ==
  Norm2(Cross(Sub(P[b + 1], P[a + 1]), Sub(P[c + 1], P[a + 1])))
    > (2 * minArea) * (2 * minArea)

\* ----------------------------------------------- fallback triangulation
\* The faces of seed i when the neighbours are sought at every other index.
SimpleFacesAnyIndex(P, i) ==
  LET n == Len(P)
      p1 == P[i + 1]
      near == {j \in (0..(n - 1)) \ {i} : Dist2(p1, P[j + 1]) < maxDistance * maxDistance}
      nearby == SortByKey(near, [j \in near |-> Dist2(p1, P[j + 1])])
      cnt == Len(nearby)
      pairs == LoopPairs(Min(cnt, 4), Min(cnt, 6))
      ok(pr) ==
        LET idx2 == nearby[pr[1] + 1]
            idx3 == nearby[pr[2] + 1]
        IN  /\ Dist2(P[idx2 + 1], P[idx3 + 1]) < maxDistance * maxDistance
            /\ AreaExceeds(P, i, idx2, idx3, minAreaSimple)
      kept == SelectSeq(pairs, ok)
  IN  [k \in 1..Len(kept) |-> <<i, nearby[kept[k][1] + 1], nearby[kept[k][2] + 1]>>]

\* The faces generateSimpleTriangulation emits for seed i (0-based).
SimpleFacesAt(P, i) ==
  LET n == Len(P)
      p1 == P[i + 1]
      near == {j \in (i + 1)..(n - 1) : Dist2(p1, P[j + 1]) < maxDistance * maxDistance}
      nearby == SortByKey(near, [j \in near |-> Dist2(p1, P[j + 1])])
      cnt == Len(nearby)
      pairs == LoopPairs(Min(cnt, 4), Min(cnt, 6))
      ok(pr) ==
        LET idx2 == nearby[pr[1] + 1]
            idx3 == nearby[pr[2] + 1]
        IN  /\ Dist2(P[idx2 + 1], P[idx3 + 1]) < maxDistance * maxDistance
            /\ AreaExceeds(P, i, idx2, idx3, minAreaSimple)
      kept == SelectSeq(pairs, ok)
  IN  [k \in 1..Len(kept) |-> <<i, nearby[kept[k][1] + 1], nearby[kept[k][2] + 1]>>]

generateSimpleTriangulation(P) ==
  LET seeds == Min(Len(P), SimpleSeedLimit)
  IN  ConcatUpTo([i \in 0..(seeds - 1) |-> SimpleFacesAt(P, i)], 0, seeds)

\* --------------------------------------------- pose-aware triangulation
\* A camera transform is [f, pos, z]: pos is columns.3, z is columns.2 and
\* f names the frame it was read from.
SumCameraPos(T) ==
  LET RECURSIVE S(_)
      S(i) == IF i = 0 THEN Zero3 ELSE Add(S(i - 1), T[i].pos)
  IN  S(Len(T))

SumViewDir(T) ==
  LET RECURSIVE S(_)
      S(i) == IF i = 0 THEN Zero3 ELSE Add(S(i - 1), Scale(-1, T[i].z))
  IN  S(Len(T))

\* avgViewDir, right and adjustedUp are normalize(v) of these directions;
\* normalize of the zero vector is NaN in every component.
RightDir(V) == Cross(V, Up3)
AdjustedUpDir(V) == Cross(RightDir(V), V)
BasisIsNaN(V) == V = Zero3 \/ RightDir(V) = Zero3

\* dist2D(i, j)^2 scaled by |right|^2 * |adjustedUp|^2
Dist2DScaled(P, V, i, j) ==
  LET d == Sub(P[j + 1], P[i + 1])
      r == RightDir(V)
      u == AdjustedUpDir(V)
  IN  Dot(d, r) * Dot(d, r) * Norm2(u) + Dot(d, u) * Dot(d, u) * Norm2(r)

Near2D(P, V, i, j) ==
  Dist2DScaled(P, V, i, j)
    < maxEdgeLength2D * maxEdgeLength2D * Norm2(RightDir(V)) * Norm2(AdjustedUpDir(V))

\* abs(p2.depth - p1.depth) < maxDepthDiff
DepthClose(P, V, i, j) ==
  LET d == Sub(P[j + 1], P[i + 1])
  IN  Dot(d, V) * Dot(d, V) < maxDepthDiff * maxDepthDiff * Norm2(V)

\* the orientation test with its sense reversed
FacesAway(P, C, m, a, b, c) ==
  Dot(Cross(Sub(P[b + 1], P[a + 1]), Sub(P[c + 1], P[a + 1])),
      Sub(Scale(3, C), Scale(m, Add(Add(P[a + 1], P[b + 1]), P[c + 1])))) < 0

\* dot(normal, toCamera) > 0 for the triangle (a, b, c), camera sum C of m poses
FacesCamera(P, C, m, a, b, c) ==
  LET crossProd == Cross(Sub(P[b + 1], P[a + 1]), Sub(P[c + 1], P[a + 1]))
      centre3 == Add(Add(P[a + 1], P[b + 1]), P[c + 1])
  IN  Dot(crossProd, Sub(Scale(3, C), Scale(m, centre3))) > 0

\* The sorted neighbors of seed i (0-based indices)
PoseNeighbors(P, T, i) ==
  LET n == Len(P)
      V == SumViewDir(T)
      near == IF BasisIsNaN(V) THEN {}
              ELSE {j \in 0..(n - 1) : j # i /\ Near2D(P, V, i, j) /\ DepthClose(P, V, i, j)}
  IN  SortByKey(near, [j \in near |-> Dist2DScaled(P, V, i, j)])

PoseFacesAt(P, T, i) ==
  LET n == Len(P)
      V == SumViewDir(T)
      C == SumCameraPos(T)
      neighbors == PoseNeighbors(P, T, i)
      cnt == Len(neighbors)
      pairs == LoopPairs(Min(cnt, 6), Min(cnt, 10))
      ok(pr) ==
        LET idx2 == neighbors[pr[1] + 1]
            idx3 == neighbors[pr[2] + 1]
        IN  /\ Near2D(P, V, idx2, idx3)
            /\ Dist2(P[i + 1], P[idx2 + 1]) < maxEdge3D * maxEdge3D
            /\ Dist2(P[idx2 + 1], P[idx3 + 1]) < maxEdge3D * maxEdge3D
            /\ Dist2(P[idx3 + 1], P[i + 1]) < maxEdge3D * maxEdge3D
            /\ AreaExceeds(P, i, idx2, idx3, minAreaPose)
      kept == SelectSeq(pairs, ok)
      face(pr) ==
        LET idx2 == neighbors[pr[1] + 1]
            idx3 == neighbors[pr[2] + 1]
        IN  IF FacesCamera(P, C, Len(T), i, idx2, idx3)
            THEN <<i, idx2, idx3>>
            ELSE <<i, idx3, idx2>>
  IN  [k \in 1..Len(kept) |-> face(kept[k])]

\* every face of every seed, without the limit
PoseAwareFacesUncapped(P, T) ==
  ConcatUpTo([i \in 0..(Len(P) - 1) |-> PoseFacesAt(P, T, i)], 0, Len(P))

\* The pose-aware branch of generateMeshFromPoints: faces are appended seed
\* by seed and the function returns as soon as 4 * points.count are held.
PoseAwareFaces(P, T) ==
  LET n == Len(P)
      all == ConcatUpTo([i \in 0..(n - 1) |-> PoseFacesAt(P, T, i)], 0, n)
  IN  SubSeq(all, 1, Min(Len(all), 4 * n))

UsesPoseAware(P, T) == Len(P) >= 3 /\ Len(T) = Len(P)

generateMeshFromPoints(P, T) ==
  IF Len(P) < 3 THEN <<>>
  ELSE IF Len(T) # Len(P) THEN generateSimpleTriangulation(P)
  ELSE PoseAwareFaces(P, T)


\* ------------------------------------------------------- vertex normals
\* A normal is [src, a]: src = "hit" is the normal the raycast supplied for
\* the sample a = <<frame, index, 0>>; src = "calc" is a computed normal of
\* direction a (normalize is a positive scaling); src = "nan" is NaN.
HitNormal(id) == [src |-> "hit", a |-> <<id[1], id[2], 0>>]
UpNormal == [src |-> "calc", a |-> Up3]
NaNNormal == [src |-> "nan", a |-> Zero3]

\* The indices (1-based) of the neighbors calculateVertexNormals gathers for
\* point idx of P: in array order, until six are held.
NormalNeighbors(P, idx) ==
  LET others == SelectSeq([i \in 1..Len(P) |-> i],
                          LAMBDA i : i # idx /\ Dist2(P[idx], P[i]) < searchRadius * searchRadius)
  IN  SubSeq(others, 1, Min(Len(others), 6))

\* The normal calculateVertexNormals computes for point idx (1-based) of P.
ComputedNormalAt(P, idx) ==
  LET point == P[idx]
      neighbors == NormalNeighbors(P, idx)
      cnt == Len(neighbors)
  IN  IF cnt >= 2
      THEN LET v1 == Sub(P[neighbors[1]], point)
               v2 == Sub(P[neighbors[Min(1, cnt - 1) + 1]], point)
               normal == Cross(v1, v2)
           IN  IF v1 = Zero3 \/ v2 = Zero3 \/ normal = Zero3 THEN NaNNormal
               ELSE IF normal[2] < 0 THEN [src |-> "calc", a |-> Scale(-1, normal)]
               ELSE [src |-> "calc", a |-> normal]
      ELSE UpNormal

calculateVertexNormals(P, N) ==
  IF Len(N) = Len(P) THEN N
  ELSE IF Len(P) < 3 THEN [i \in 1..Len(P) |-> UpNormal]
  ELSE [i \in 1..Len(P) |-> ComputedNormalAt(P, i)]

\* -------------------------------------------------------- outlier filter
\* densityScores[i]: the other points closer than neighborRadius
DensityScore(S, i) ==
  Cardinality({j \in 1..Len(S) : j # i /\ Dist2(S[i].p, S[j].p) < neighborRadius * neighborRadius})

\* sortedScores[sortedScores.count / 2]
MedianScore(S) ==
  LET n == Len(S)
      order == SortByKey(1..n, [i \in 1..n |-> DensityScore(S, i)])
  IN  DensityScore(S, order[(n \div 2) + 1])

\* max(2, Int(Float(medianScore) * 0.3))
DensityThreshold(S) == Max(2, (MedianScore(S) * 3) \div 10)

\* the filter without its final fallback to the input
filterOutliersStrict(S) ==
  IF Len(S) <= 3 THEN S
  ELSE LET idx == SelectSeq([i \in 1..Len(S) |-> i],
                            LAMBDA i : DensityScore(S, i) >= DensityThreshold(S))
       IN  [k \in 1..Len(idx) |-> S[idx[k]]]

filterOutliers(S) ==
  IF Len(S) <= 3 THEN S
  ELSE LET threshold == DensityThreshold(S)
           idx == SelectSeq([i \in 1..Len(S) |-> i],
                            LAMBDA i : DensityScore(S, i) >= threshold)
           filtered == [k \in 1..Len(idx) |-> S[idx[k]]]
       IN  IF filtered = <<>> THEN S ELSE filtered

\* ------------------------------------------------------ bounding boxes
NoBox == [set |-> FALSE, min |-> Zero3, max |-> Zero3]
BoxOf(p) == [set |-> TRUE, min |-> p, max |-> p]
\* the running component-wise min / max
Extend(box, p) ==
  IF ~box.set THEN BoxOf(p)
  ELSE [set |-> TRUE,
        min |-> <<Min(box.min[1], p[1]), Min(box.min[2], p[2]), Min(box.min[3], p[3])>>,
        max |-> <<Max(box.max[1], p[1]), Max(box.max[2], p[2]), Max(box.max[3], p[3])>>]

\* the box that grows from the origin instead of the first point
BoxFromOrigin(P) ==
  LET RECURSIVE B(_)
      B(i) == IF i = 0 THEN BoxOf(Zero3) ELSE Extend(B(i - 1), P[i])
  IN  IF Len(P) = 0 THEN NoBox ELSE B(Len(P))

BoxOfPoints(P) ==
  LET RECURSIVE B(_)
      B(i) == IF i = 0 THEN NoBox ELSE Extend(B(i - 1), P[i])
  IN  B(Len(P))


\* ---------------------------------------------------------------- inputs
\* The scene the frames of a behaviour observe: sample `index` of frame f
\* lies on the plane z = 0, and the camera of frame f looks down -z from
\* one metre above it (columns.2 = (0, 0, 1)), at a position of its own.
ScenePos(f, index) == <<4 * index, 4 * f, 0>>
Sample(f, index) == [id |-> <<f, index>>, p |-> ScenePos(f, index)]
SceneCamera(f) == [f |-> f, pos |-> <<10 * f, 0, 100>>, z |-> <<0, 0, 1>>]

\* A LiDAR mesh anchor is [id, ver]; its geometry is one world-space vertex.
AnchorVertex(a) == <<10 * a.id, a.ver, 0>>

\* ----------------------------------------------------------------- state
VARIABLES
  variant,               \* which ARView.swift is running
  hasLiDAR,              \* supportsSceneReconstruction(.mesh)
  running,               \* the ARSession runs (not paused)
  delegate,              \* sceneView.delegate / session.delegate are set
  isScanning,
  accumulatedPoints,
  pointCameraTransforms,
  pointNormals,
  meshAnchors,
  scanBoundingBox,
  sceneAnchors,          \* ids of the mesh anchors the session holds
  nextAnchor,            \* names the next mesh anchor ARKit adds
  lastCall,              \* the operation that ran last and what it returned
  trapped,               \* the process hit a Swift runtime trap
  nextFrame,             \* names the next frame that delivers points
  hist,                  \* samples appended since accumulatedPoints was emptied
  photogrammetryCapture, \* the PhotogrammetryCapture of the photogrammetry view
  callbacks,             \* onScanComplete and onScanProgress are set
  clock,                 \* the time, in quarters of a second
  files,                 \* the image files in the documents directory
  queues                 \* the frame callback under way and the blocks queued

vars == <<variant, hasLiDAR, running, delegate, isScanning,
          accumulatedPoints, pointCameraTransforms, pointNormals, meshAnchors,
          scanBoundingBox, sceneAnchors, nextAnchor, lastCall, trapped,
          nextFrame, hist, photogrammetryCapture, callbacks, clock, files, queues>>

\* what the scanning variants leave as it is
device == <<variant, hasLiDAR, photogrammetryCapture, callbacks, clock, files, queues>>
arrays == <<accumulatedPoints, pointCameraTransforms, pointNormals, hist>>
lidar == <<meshAnchors, scanBoundingBox, sceneAnchors, nextAnchor>>

NoScanData ==
  [scanType |-> "none", vertices |-> <<>>, faces |-> <<>>, vertexCount |-> 0,
   faceCount |-> 0, meshCount |-> 0, boundingBox |-> NoBox]
ObjNil == [kind |-> "nil", v |-> <<>>, vn |-> <<>>, f |-> <<>>]

\* lastCall: op names the handler, scan is the dictionary stopObjectScan
\* returned, obj the OBJ text exportScanAsOBJ returned or saveOBJToFile wrote,
\* points the array a point filter returned, shape what
\* analyzeClusterForShape returned, clusters what clusterPoints returned.
NoShape == [shape |-> "nil", box |-> NoBox]
\* promise is how the bridge settled the call ("resolved" or the code it
\* rejected with), event the status handed to onScanProgress / onScanComplete,
\* started whether startCapture began a capture, captured whether processFrame
\* stored an image.
Called(op) ==
  [op |-> op, scan |-> NoScanData, obj |-> ObjNil, points |-> <<>>,
   shape |-> NoShape, clusters |-> <<>>, shapes |-> <<>>,
   promise |-> "none", event |-> "none", started |-> FALSE, captured |-> FALSE]

\* PhotogrammetryCapture(): captureDirectory is <<>> for nil, else holds the
\* name of the directory; lastCaptureTime is in clock ticks.
NewCapture ==
  [isCapturing |-> FALSE, imageCount |-> 0, captureDirectory |-> <<>>,
   lastCaptureTime |-> 0]

\* queues: frame is the session(_:didUpdate:) under way (pc = 0 when none),
\* main the blocks waiting on DispatchQueue.main, processing the blocks
\* waiting on processingQueue; boundary holds the three arrays as the last
\* handler left them, observed what the last reader read next to what the
\* boundary held then, detected the same for the shape detection.
NoQueues ==
  [frame |-> [pc |-> 0, steps |-> <<>>, batch |-> <<>>, removeCount |-> 0],
   main |-> {}, processing |-> {},
   boundary |-> <<<<>>, <<>>, <<>>>>,
   observed |-> [by |-> "none", seen |-> <<>>, boundary |-> <<>>],
   detected |-> [by |-> "none", seen |-> <<>>, boundary |-> <<>>]]

\* The clock counts quarters of a second and starts one second in.
TicksPerSecond == 4
StartClock == 4

\* The state after init(frame:) -> setupView -> startSession.
Init ==
  /\ variant \in {"raycast", "featurePoint"}
  /\ hasLiDAR \in BOOLEAN
  /\ running = TRUE
  /\ delegate = TRUE
  /\ isScanning = FALSE
  /\ accumulatedPoints = <<>>
  /\ pointCameraTransforms = <<>>
  /\ pointNormals = <<>>
  /\ meshAnchors = <<>>
  /\ scanBoundingBox = NoBox
  /\ sceneAnchors = {}
  /\ nextAnchor = 1
  /\ lastCall = Called("init")
  /\ trapped = FALSE
  /\ nextFrame = 1
  /\ hist = <<>>
  /\ photogrammetryCapture = NewCapture
  /\ callbacks = FALSE
  /\ clock = StartClock
  /\ files = {}
  /\ queues = NoQueues

\* ---------------------------------------------------------- frame source
\* performRaycastScanning: the surface points of frame f, filtered when
\* more than 10 were found.
performRaycastScanning(f, k) ==
  LET surfacePoints == [j \in 1..k |-> Sample(f, j)]
  IN  IF Len(surfacePoints) > 10 THEN filterOutliers(surfacePoints) ELSE surfacePoints

\* stride(from: 0, to: count, by: step).map { points[$0] }
SampledPoints(f, count, step) ==
  [m \in 1..((count + step - 1) \div step) |-> Sample(f, (m - 1) * step)]

\* append(contentsOf:) followed by the hard limit
AppendCapped(s, batch, cap) ==
  LET t == s \o batch
  IN  IF Len(t) > cap THEN DropFirst(t, Len(t) - cap) ELSE t

\* removeFirst(k) traps when the array holds fewer than k elements
RemoveFirstTrapsAlways(s, k) == TRUE
RemoveFirstTraps(s, k) == k > Len(s)

\* frameCount after `frameCount += 1`.  The handlers only test it modulo 2,
\* 10, 20 and 60 and any number of frames passes between two operations, so
\* the frame that is handled may carry any count; these counts cover every
\* outcome of the tests.
FrameCounts == {1, 2, 10, 20, 60}

\* session(_:didUpdate:), raycast variant
FrameRaycast ==
  /\ variant = "raycast" /\ ~trapped /\ running /\ delegate /\ ~hasLiDAR
  /\ lastCall' = Called("frame")
  /\ UNCHANGED <<device, running, delegate, isScanning, lidar>>
  /\ \E frameCount \in FrameCounts :
     LET processingInterval == IF isScanning THEN ScanInterval ELSE IdleInterval
     IN
     IF frameCount % processingInterval # 0
     THEN UNCHANGED <<arrays, nextFrame, trapped>>
     ELSE IF isScanning
     THEN \E k \in 0..MaxBatch :
            LET raycastPoints == performRaycastScanning(nextFrame, k)
                cnt == Len(raycastPoints)
                pts == accumulatedPoints \o raycastPoints
                tfs == pointCameraTransforms \o [j \in 1..cnt |-> SceneCamera(nextFrame)]
                nms == pointNormals \o [j \in 1..cnt |-> HitNormal(raycastPoints[j].id)]
                removeCount == Len(pts) - ScanCapRaycast
            IN  /\ cnt > 0 => nextFrame <= MaxFrames
                /\ nextFrame' = IF cnt > 0 THEN nextFrame + 1 ELSE nextFrame
                /\ hist' = hist \o raycastPoints
                /\ IF cnt = 0 \/ Len(pts) <= ScanCapRaycast
                   THEN /\ accumulatedPoints' = pts
                        /\ pointCameraTransforms' = tfs
                        /\ pointNormals' = nms
                        /\ UNCHANGED trapped
                   ELSE /\ accumulatedPoints' = DropFirst(pts, removeCount)
                        /\ IF RemoveFirstTraps(tfs, removeCount)
                           THEN /\ trapped' = TRUE
                                /\ pointCameraTransforms' = tfs
                                /\ pointNormals' = nms
                           ELSE /\ pointCameraTransforms' = DropFirst(tfs, removeCount)
                                /\ IF RemoveFirstTraps(nms, removeCount)
                                   THEN trapped' = TRUE /\ pointNormals' = nms
                                   ELSE /\ pointNormals' = DropFirst(nms, removeCount)
                                        /\ UNCHANGED trapped
     ELSE IF frameCount % IdleRaycastInterval = 0
     THEN \E k \in 0..MaxBatch :
            LET raycastPoints == performRaycastScanning(nextFrame, k)
                cnt == Len(raycastPoints)
                pts == accumulatedPoints \o raycastPoints
                nms == pointNormals \o [j \in 1..cnt |-> HitNormal(raycastPoints[j].id)]
                removeCount == Len(pts) - IdleCapRaycast
            IN  /\ cnt > 0 => nextFrame <= MaxFrames
                /\ nextFrame' = IF cnt > 0 THEN nextFrame + 1 ELSE nextFrame
                /\ hist' = hist \o raycastPoints
                /\ UNCHANGED pointCameraTransforms
                /\ IF cnt = 0 \/ Len(pts) <= IdleCapRaycast
                   THEN /\ accumulatedPoints' = pts
                        /\ pointNormals' = nms
                        /\ UNCHANGED trapped
                   ELSE /\ accumulatedPoints' = DropFirst(pts, removeCount)
                        /\ IF RemoveFirstTraps(nms, removeCount)
                           THEN trapped' = TRUE /\ pointNormals' = nms
                           ELSE /\ pointNormals' = DropFirst(nms, removeCount)
                                /\ UNCHANGED trapped
     ELSE UNCHANGED <<arrays, nextFrame, trapped>>

\* session(_:didUpdate:), feature-point variant; raw is the number of
\* rawFeaturePoints of the frame (a frame without any returns at once).
FrameFeature ==
  /\ variant = "featurePoint" /\ ~trapped /\ running /\ delegate /\ ~hasLiDAR
  /\ lastCall' = Called("frame")
  /\ UNCHANGED <<device, running, delegate, isScanning, lidar, trapped,
                 pointCameraTransforms, pointNormals>>
  /\ \E frameCount \in FrameCounts, raw \in 0..MaxRaw :
       IF isScanning
       THEN LET sampledPoints == SampledPoints(nextFrame, raw, ScanSampleStride)
            IN  /\ Len(sampledPoints) > 0 => nextFrame <= MaxFrames
                /\ nextFrame' = IF Len(sampledPoints) > 0 THEN nextFrame + 1 ELSE nextFrame
                /\ hist' = hist \o sampledPoints
                /\ accumulatedPoints' = AppendCapped(accumulatedPoints, sampledPoints, ScanCapFeature)
       ELSE IF frameCount % IdleFeatureInterval = 0
       THEN LET sampledPoints == SampledPoints(nextFrame, raw, IdleSampleStride)
            IN  /\ Len(sampledPoints) > 0 => nextFrame <= MaxFrames
                /\ nextFrame' = IF Len(sampledPoints) > 0 THEN nextFrame + 1 ELSE nextFrame
                /\ hist' = hist \o sampledPoints
                /\ accumulatedPoints' = AppendCapped(accumulatedPoints, sampledPoints, IdleCapFeature)
       ELSE UNCHANGED <<accumulatedPoints, hist, nextFrame>>


\* ------------------------------------------------------------- lifecycle
\* startObjectScan(at:), the same text in both variants
startObjectScan ==
  /\ ~trapped
  /\ isScanning' = TRUE
  /\ meshAnchors' = <<>>
  /\ accumulatedPoints' = <<>>
  /\ hist' = <<>>
  /\ scanBoundingBox' = NoBox
  /\ lastCall' = Called("startObjectScan")
  /\ UNCHANGED <<device, running, delegate, pointCameraTransforms,
                 pointNormals, sceneAnchors, nextAnchor, trapped, nextFrame>>

\* generateScanData: the LiDAR result
generateScanData ==
  [scanType |-> "lidar",
   vertices |-> [i \in 1..Len(meshAnchors) |-> AnchorVertex(meshAnchors[i])],
   faces |-> <<>>,
   vertexCount |-> Len(meshAnchors),
   faceCount |-> 0,
   meshCount |-> Len(meshAnchors),
   boundingBox |-> scanBoundingBox]

\* generateFeaturePointScanData, raycast variant
generateFeaturePointScanDataRaycast ==
  LET n == Len(accumulatedPoints)
      faces == StrideFacesRaycast(n)
  IN  [scanType |-> "featurePoints",
       vertices |-> Positions(accumulatedPoints),
       faces |-> faces,
       vertexCount |-> n,
       faceCount |-> Len(faces),
       meshCount |-> IF n >= 3 THEN 1 ELSE 0,
       boundingBox |-> BoxOfPoints(Positions(accumulatedPoints))]

\* generateFeaturePointScanData, feature-point variant (when it does not trap)
generateFeaturePointScanDataFeature ==
  LET n == Len(accumulatedPoints)
      faces == IF n = 0 THEN <<>> ELSE StrideFacesFeature(n)
  IN  [scanType |-> "featurePoints",
       vertices |-> Positions(accumulatedPoints),
       faces |-> faces,
       vertexCount |-> n,
       faceCount |-> Len(faces),
       meshCount |-> IF n = 0 THEN 0 ELSE 1,
       boundingBox |-> BoxOfPoints(Positions(accumulatedPoints))]

\* The range of the stride loop is formed only when points are held.
StopTraps ==
  /\ variant = "featurePoint"
  /\ ~(hasLiDAR /\ meshAnchors # <<>>)
  /\ accumulatedPoints # <<>>
  /\ StrideTrapFeature(Len(accumulatedPoints))

stopObjectScan ==
  /\ ~trapped
  /\ isScanning' = FALSE
  /\ IF StopTraps
     THEN trapped' = TRUE /\ lastCall' = Called("stopObjectScan")
     ELSE /\ UNCHANGED trapped
          /\ lastCall' =
               [Called("stopObjectScan") EXCEPT !.scan =
                  IF hasLiDAR /\ meshAnchors # <<>> THEN generateScanData
                  ELSE IF variant = "raycast" THEN generateFeaturePointScanDataRaycast
                  ELSE generateFeaturePointScanDataFeature]
  /\ UNCHANGED <<device, running, delegate, arrays, lidar, nextFrame>>

\* clearScan, raycast variant
clearScanRaycast ==
  /\ variant = "raycast" /\ ~trapped
  /\ isScanning' = FALSE
  /\ meshAnchors' = <<>>
  /\ accumulatedPoints' = <<>>
  /\ hist' = <<>>
  /\ pointCameraTransforms' = <<>>
  /\ pointNormals' = <<>>
  /\ scanBoundingBox' = NoBox
  /\ lastCall' = Called("clearScan")
  /\ UNCHANGED <<device, running, delegate, sceneAnchors, nextAnchor, trapped, nextFrame>>

\* clearScan, feature-point variant
clearScanFeature ==
  /\ variant = "featurePoint" /\ ~trapped
  /\ isScanning' = FALSE
  /\ meshAnchors' = <<>>
  /\ scanBoundingBox' = NoBox
  /\ lastCall' = Called("clearScan")
  /\ UNCHANGED <<device, running, delegate, arrays, sceneAnchors, nextAnchor,
                 trapped, nextFrame>>

\* ---------------------------------------------------------------- export
exportMeshAsOBJ ==
  [kind |-> "lidar",
   v |-> [i \in 1..Len(meshAnchors) |-> AnchorVertex(meshAnchors[i])],
   vn |-> [i \in 1..Len(meshAnchors) |->
             [src |-> "mesh", a |-> <<meshAnchors[i].id, meshAnchors[i].ver, 0>>]],
   f |-> <<>>]

\* the face line written with the 0-based indices as they are
ObjFaceZeroBased(face) ==
  <<<<face[1], face[1]>>, <<face[2], face[2]>>, <<face[3], face[3]>>>>

\* "f a//a b//b c//c" with a = face[0] + 1, ...
ObjFace(face) ==
  <<<<face[1] + 1, face[1] + 1>>, <<face[2] + 1, face[2] + 1>>, <<face[3] + 1, face[3] + 1>>>>

\* exportFeaturePointsAsOBJ, raycast variant
exportFeaturePointsAsOBJRaycast ==
  LET P == Positions(accumulatedPoints)
      normals == calculateVertexNormals(P, pointNormals)
      faces == generateMeshFromPoints(P, pointCameraTransforms)
  IN  [kind |-> "featurePoints",
       v |-> P,
       vn |-> normals,
       f |-> [k \in 1..Len(faces) |-> ObjFace(faces[k])]]

\* exportFeaturePointsAsOBJ, feature-point variant: vertices only
exportFeaturePointsAsOBJFeature ==
  [kind |-> "featurePoints", v |-> Positions(accumulatedPoints), vn |-> <<>>, f |-> <<>>]

exportScanAsOBJ ==
  IF hasLiDAR /\ meshAnchors # <<>> THEN exportMeshAsOBJ
  ELSE IF accumulatedPoints # <<>>
  THEN IF variant = "raycast" THEN exportFeaturePointsAsOBJRaycast
       ELSE exportFeaturePointsAsOBJFeature
  ELSE ObjNil

\* What a bridge call that exports reports back: the OBJ text, or nil when
\* there is nothing to export or (saveOBJToFile only) a file operation throws.
Exported(op, written) ==
  [Called(op) EXCEPT !.obj = IF written THEN exportScanAsOBJ ELSE ObjNil]

ExportScanAsOBJ ==
  /\ ~trapped
  /\ \E op \in {"exportScanAsOBJ", "saveOBJToFile"} :
       \E written \in IF op = "saveOBJToFile" THEN BOOLEAN ELSE {TRUE} :
         lastCall' = Exported(op, written)
  /\ UNCHANGED <<device, running, delegate, isScanning, arrays, lidar, trapped, nextFrame>>

\* ------------------------------------------------------- session control
\* stopSession, raycast variant: session.pause() and cleanup()
stopSessionRaycast ==
  /\ variant = "raycast" /\ ~trapped
  /\ running' = FALSE
  /\ delegate' = FALSE
  /\ accumulatedPoints' = <<>>
  /\ hist' = <<>>
  /\ meshAnchors' = <<>>
  /\ isScanning' = FALSE
  /\ scanBoundingBox' = NoBox
  /\ lastCall' = Called("stopSession")
  /\ UNCHANGED <<device, pointCameraTransforms, pointNormals, sceneAnchors,
                 nextAnchor, trapped, nextFrame>>

\* stopSession, feature-point variant: session.pause()
stopSessionFeature ==
  /\ variant = "featurePoint" /\ ~trapped
  /\ running' = FALSE
  /\ lastCall' = Called("stopSession")
  /\ UNCHANGED <<device, delegate, isScanning, arrays, lidar, trapped, nextFrame>>

\* startSession: session.run(options: [.resetTracking, .removeExistingAnchors])
startSession ==
  /\ ~trapped
  /\ running' = TRUE
  /\ sceneAnchors' = {}
  /\ UNCHANGED <<device, delegate, isScanning, arrays, meshAnchors,
                 scanBoundingBox, nextAnchor, trapped, nextFrame>>
  /\ lastCall' = Called("startSession")

\* ----------------------------------------------------------------- LiDAR
\* renderer(_:didAdd:for:) for an ARMeshAnchor
rendererDidAdd ==
  /\ ~trapped /\ running /\ delegate /\ hasLiDAR
  /\ nextAnchor <= MaxAnchors
  /\ nextAnchor' = nextAnchor + 1
  /\ LET id == nextAnchor IN
       /\ sceneAnchors' = sceneAnchors \cup {id}
       /\ IF isScanning
          THEN /\ meshAnchors' = Append(meshAnchors, [id |-> id, ver |-> 0])
               /\ scanBoundingBox' = Extend(scanBoundingBox, AnchorVertex([id |-> id, ver |-> 0]))
          ELSE UNCHANGED <<meshAnchors, scanBoundingBox>>
  /\ lastCall' = Called("rendererDidAdd")
  /\ UNCHANGED <<device, running, delegate, isScanning, arrays, trapped, nextFrame>>

\* renderer(_:didUpdate:for:) for an ARMeshAnchor: the geometry is replaced
rendererDidUpdate ==
  /\ ~trapped /\ running /\ delegate /\ hasLiDAR
  /\ \E id \in sceneAnchors :
       LET index == {i \in 1..Len(meshAnchors) : meshAnchors[i].id = id}
           first == CHOOSE i \in index : \A j \in index : i <= j
           updated == [id |-> id, ver |-> 1]
       IN  IF isScanning /\ index # {}
           THEN /\ meshAnchors' = [meshAnchors EXCEPT ![first] = updated]
                /\ scanBoundingBox' = Extend(scanBoundingBox, AnchorVertex(updated))
           ELSE UNCHANGED <<meshAnchors, scanBoundingBox>>
  /\ UNCHANGED <<device, running, delegate, isScanning, arrays,
                 sceneAnchors, nextAnchor, trapped, nextFrame>>
  /\ lastCall' = Called("rendererDidUpdate")

Next ==
  \/ FrameRaycast
  \/ FrameFeature
  \/ startObjectScan
  \/ stopObjectScan
  \/ clearScanRaycast
  \/ clearScanFeature
  \/ ExportScanAsOBJ
  \/ stopSessionRaycast
  \/ stopSessionFeature
  \/ startSession
  \/ rendererDidAdd
  \/ rendererDidUpdate

Spec == Init /\ [][Next]_vars


\* ================================================================ geometry
\* The pure geometry of the scan (stride triangulation, mesh triangulator,
\* outlier filter) applied to arbitrary small clouds: GeoSpec starts from a
\* cloud the session may hold after a scan and applies the operations.
GeoMaxPoints == 4

\* Positions in centimetres: a 4 cm corner and three points farther than
\* every radius of the code from each other and from the corner's apex.
GeoGrid ==
  {<<0, 0, 0>>, <<4, 0, 0>>, <<0, 4, 0>>, <<20, 0, 0>>, <<0, 20, 0>>, <<0, 0, 20>>}

\* Cameras looking down -z and straight down -y.
GeoCameras ==
  {[f |-> 1, pos |-> <<0, 0, 100>>, z |-> <<0, 0, 1>>],
   [f |-> 1, pos |-> <<0, 100, 0>>, z |-> <<0, 1, 0>>]}

GeoClouds ==
  {[i \in 1..Len(c) |-> [id |-> <<1, i>>, p |-> c[i]]] :
     c \in UNION {[1..n -> GeoGrid] : n \in 0..GeoMaxPoints}}

\* A dense patch: five points within 8 cm of each other, no three on a line,
\* one of them raised; DenseClouds are its orderings.
DensePatch == {<<0, 0, 0>>, <<4, 0, 0>>, <<0, 4, 0>>, <<4, 4, 0>>, <<2, 6, 2>>}

DenseClouds ==
  {[i \in 1..Len(c) |-> [id |-> <<1, i>>, p |-> c[i]]] :
     c \in {d \in [1..Cardinality(DensePatch) -> DensePatch] :
              \A i, j \in DOMAIN d : i # j => d[i] # d[j]}}

\* Raycast batches large enough for the outlier filter (it runs on more
\* than 10 hits): a points at x = 0 and b points at x = 1 cm, all neighbours
\* of each other, and one point at x = -14 cm that is closer than the
\* neighbour radius to the points at x = 0 only (points at one position
\* stand for hits closer to each other than a centimetre).
FilterMaxCluster == 10

FilterCloud(a, b) ==
  [i \in 1..(a + b + 1) |->
     [id |-> <<1, i>>,
      p |-> IF i <= a THEN <<0, 0, 0>> ELSE IF i <= a + b THEN <<1, 0, 0>> ELSE <<-14, 0, 0>>]]

FilterClouds == {FilterCloud(a, b) : a \in 0..3, b \in 0..FilterMaxCluster}

\* A patch of eight points 3 cm apart on a plane, all within 10 cm of each
\* other; SimpleClouds are the patch read from each of its points onwards,
\* forwards and backwards.
SimplePatch ==
  <<<<0, 0, 0>>, <<3, 0, 0>>, <<6, 0, 0>>, <<0, 3, 0>>,
    <<3, 3, 0>>, <<6, 3, 0>>, <<0, 6, 0>>, <<3, 6, 0>>>>

SimpleClouds ==
  LET n == Len(SimplePatch)
  IN  {[i \in 1..n |->
          [id |-> <<1, i>>,
           p |-> SimplePatch[IF forwards THEN ((i - 1 + r) % n) + 1 ELSE ((n - i + r) % n) + 1]]] :
         r \in 0..(n - 1), forwards \in BOOLEAN}

\* The feature-point variant reads the count of the cloud only.
GeoCountClouds == {[i \in 1..n |-> Sample(1, i)] : n \in 0..GeoMaxPoints}

\* accumulatedPoints.count values around every boundary of the stride loop
StrideCounts ==
  (0..12) \cup (998..1004) \cup (1998..2004) \cup (2996..3004) \cup (7990..8000)

GeoInit ==
  /\ variant \in {"raycast", "featurePoint"}
  /\ hasLiDAR = FALSE
  /\ running = TRUE
  /\ delegate = TRUE
  /\ isScanning = FALSE
  /\ accumulatedPoints \in
       IF variant = "raycast"
       THEN GeoClouds \cup DenseClouds \cup FilterClouds \cup SimpleClouds
       ELSE GeoCountClouds
  \* the batches for the outlier filter come without camera transforms
  /\ pointCameraTransforms \in
       IF variant = "raycast" /\ accumulatedPoints \notin FilterClouds
       THEN {<<>>} \cup {[i \in 1..Len(accumulatedPoints) |-> cam] : cam \in GeoCameras}
       ELSE {<<>>}
  /\ pointNormals = <<>>
  /\ meshAnchors = <<>>
  /\ scanBoundingBox = NoBox
  /\ sceneAnchors = {}
  /\ nextAnchor = 1
  /\ lastCall = Called("init")
  /\ trapped = FALSE
  /\ nextFrame = 1
  /\ hist = accumulatedPoints
  /\ photogrammetryCapture = NewCapture
  /\ callbacks = FALSE
  /\ clock = StartClock
  /\ files = {}
  /\ queues = NoQueues

\* Every operation below reads the cloud and leaves it as it is, so each
\* is applied to the session as GeoInit made it.
Fresh == lastCall.op = "init"

\* filterOutliers applied to the cloud
FilterOutliers ==
  /\ variant = "raycast" /\ ~trapped /\ Fresh
  /\ lastCall' = [Called("filterOutliers") EXCEPT !.points = filterOutliers(accumulatedPoints)]
  /\ UNCHANGED <<device, running, delegate, isScanning, arrays, lidar, trapped, nextFrame>>

\* The stride loop of generateFeaturePointScanData for a cloud of n points.
\* The loop reads accumulatedPoints.count only, so a large cloud is given by
\* its count, once per count, from the session that holds no small cloud.
StrideScan(n) ==
  LET faces == IF variant = "raycast" THEN StrideFacesRaycast(n) ELSE StrideFacesFeature(n)
  IN  [NoScanData EXCEPT !.scanType = "featurePoints", !.faces = faces,
                         !.vertexCount = n, !.faceCount = Len(faces)]

StrideTriangulation ==
  /\ ~trapped /\ Fresh /\ accumulatedPoints = <<>>
  /\ \E n \in StrideCounts :
       /\ n > 0
       /\ IF variant = "featurePoint" /\ StrideTrapFeature(n)
          THEN trapped' = TRUE /\ lastCall' = Called("strideTriangulation")
          ELSE /\ UNCHANGED trapped
               /\ lastCall' = [Called("strideTriangulation") EXCEPT !.scan = StrideScan(n)]
  /\ UNCHANGED <<device, running, delegate, isScanning, arrays, lidar, nextFrame>>

GeoStop == Fresh /\ stopObjectScan
GeoExport ==
  /\ Fresh /\ ~trapped
  /\ lastCall' = Exported("exportScanAsOBJ", TRUE)
  /\ UNCHANGED <<device, running, delegate, isScanning, arrays, lidar, trapped, nextFrame>>

GeoNext ==
  \/ GeoStop
  \/ GeoExport
  \/ FilterOutliers
  \/ StrideTriangulation

GeoSpec == GeoInit /\ [][GeoNext]_vars


\* ============================================================ photogrammetry
\* The photogrammetry ARView (ios/ARinReactNative/ARView.swift, first class),
\* its PhotogrammetryCapture and the bridge methods that drive them; and the
\* Android ARView (ARView.kt) with its PhotogrammetryCapture and bridge.
MaxImages == 3
MaxClock == 7
MaxCaptures == 2

\* captureInterval / captureIntervalMs: half a second
captureInterval == 2

\* mkdirs() returned false: the directory the capture holds does not exist;
\* such a directory is named by a negative number
DirectoryMissing(dir) == dir < 0

\* init(frame:) -> setupView -> startSession; the owner of the view may have
\* set the callbacks. hasLiDAR stands for PhotogrammetrySession.isSupported.
\* On Android createViewInstance posts startSession, which leaves session
\* null when ARCore cannot be set up, and events are always sent.
PhotoInit ==
  /\ variant \in {"photogrammetry", "android"}
  /\ hasLiDAR \in (IF variant = "android" THEN {FALSE} ELSE BOOLEAN)
  /\ running \in (IF variant = "android" THEN BOOLEAN ELSE {TRUE})
  /\ delegate = TRUE
  /\ isScanning = FALSE
  /\ accumulatedPoints = <<>>
  /\ pointCameraTransforms = <<>>
  /\ pointNormals = <<>>
  /\ meshAnchors = <<>>
  /\ scanBoundingBox = NoBox
  /\ sceneAnchors = {}
  /\ nextAnchor = 1
  /\ lastCall = Called("init")
  /\ trapped = FALSE
  /\ nextFrame = 1
  /\ hist = <<>>
  /\ photogrammetryCapture = NewCapture
  /\ callbacks \in (IF variant = "android" THEN {TRUE} ELSE BOOLEAN)
  /\ clock = StartClock
  /\ files = {}
  /\ queues = NoQueues

scanning == <<isScanning, arrays, lidar, trapped, nextFrame>>

\* Time passes.
Tick ==
  /\ clock < MaxClock
  /\ clock' = clock + 1
  /\ UNCHANGED <<queues, variant, hasLiDAR, running, delegate, scanning, lastCall,
                 photogrammetryCapture, callbacks, files>>

\* "PhotoCapture_\(Int(Date().timeIntervalSince1970))": the whole seconds
TimestampedDirectory(now) == now \div TicksPerSecond

\* "PhotoCapture_$timestamp" of System.currentTimeMillis(): the calls of one
\* capture object are more than a millisecond apart, so each name is new.
TimestampedDirectoryMs(capture) ==
  IF capture.captureDirectory = <<>> THEN 1
  ELSE Max(capture.captureDirectory[1], 0 - capture.captureDirectory[1]) + 1

\* PhotogrammetryCapture.startCapture past its isCapturing guard
startCapture(capture, dir) ==
  [isCapturing |-> TRUE, imageCount |-> 0, captureDirectory |-> <<dir>>,
   lastCaptureTime |-> 0]

\* ARNativeModule.startObjectScan -> ARView.startObjectScan -> startCapture,
\* which throws when a capture is active or the directory cannot be made
\* (createDirectory succeeds on a directory that exists).
startObjectScanPhotogrammetry ==
  /\ variant = "photogrammetry"
  /\ \E directoryCreated \in BOOLEAN :
       LET starts == ~photogrammetryCapture.isCapturing /\ directoryCreated
       IN  /\ photogrammetryCapture' =
                IF starts
                THEN startCapture(photogrammetryCapture, TimestampedDirectory(clock))
                ELSE photogrammetryCapture
           /\ lastCall' = [Called("startObjectScan") EXCEPT
                             !.promise = "resolved",
                             !.started = starts,
                             !.event = IF ~callbacks THEN "none"
                                       ELSE IF starts THEN "started" ELSE "error"]
  /\ UNCHANGED <<queues, variant, hasLiDAR, callbacks, running, delegate, scanning,
                 clock, files>>

\* ARNativeModule.stopObjectScan -> ARView.stopObjectScan -> stopCapture
stopObjectScanPhotogrammetry ==
  /\ variant = "photogrammetry"
  /\ photogrammetryCapture' = [photogrammetryCapture EXCEPT !.isCapturing = FALSE]
  /\ lastCall' = [Called("stopObjectScan") EXCEPT
                    !.promise = "resolved",
                    !.scan = [NoScanData EXCEPT !.scanType = "photogrammetry",
                                                !.vertexCount = photogrammetryCapture.imageCount],
                    !.event = IF callbacks THEN "complete" ELSE "none"]
  /\ UNCHANGED <<queues, variant, hasLiDAR, callbacks, running, delegate, scanning,
                 clock, files>>

\* ARNativeModule.clearScan -> ARView.clearScan
clearScanPhotogrammetry ==
  /\ variant = "photogrammetry"
  /\ photogrammetryCapture' = NewCapture
  /\ lastCall' = [Called("clearScan") EXCEPT !.promise = "resolved"]
  /\ UNCHANGED <<queues, variant, hasLiDAR, callbacks, running, delegate, scanning,
                 clock, files>>

\* a file of the documents directory: time is when it was last written
WriteFile(fs, dir, index, kind, now) ==
  {f \in fs : ~(f.dir = dir /\ f.index = index /\ f.kind = kind)}
    \cup {[dir |-> dir, index |-> index, kind |-> kind, time |-> now]}

\* captureImage: the conversion throws ("failed"), or image_%04d.jpg is
\* written and the metadata throws ("jpgOnly"), or both files are written.
\* Nothing can be written into a directory that does not exist.
CaptureOutcomes == {"failed", "jpgOnly", "written"}
captureImageThrows(dir, outcome) == DirectoryMissing(dir) \/ outcome # "written"
captureImage(fs, dir, index, now, outcome) ==
  IF DirectoryMissing(dir) \/ outcome = "failed" THEN fs
  ELSE IF outcome = "jpgOnly" THEN WriteFile(fs, dir, index, "jpg", now)
  ELSE WriteFile(WriteFile(fs, dir, index, "jpg", now), dir, index, "json", now)

\* guard currentTime - lastCaptureTime >= captureInterval
IntervalIgnored(currentTime, lastCaptureTime) == TRUE
IntervalPassed(currentTime, lastCaptureTime) ==
  currentTime - lastCaptureTime >= captureInterval

\* PhotogrammetryCapture.processFrame
processFrame(capture, fs, currentTime, outcome) ==
  IF \/ ~capture.isCapturing
     \/ capture.captureDirectory = <<>>
     \/ ~IntervalPassed(currentTime, capture.lastCaptureTime)
  THEN [capture |-> capture, files |-> fs, captured |-> FALSE]
  ELSE LET dir == capture.captureDirectory[1]
       IN  [capture |-> IF captureImageThrows(dir, outcome) THEN capture
                        ELSE [capture EXCEPT !.lastCaptureTime = currentTime,
                                             !.imageCount = @ + 1],
            files |-> captureImage(fs, dir, capture.imageCount, currentTime, outcome),
            captured |-> ~captureImageThrows(dir, outcome)]

\* session(_:didUpdate:) -> processFrame with the frame's timestamp
sessionDidUpdate ==
  /\ variant = "photogrammetry"
  /\ running /\ delegate
  /\ photogrammetryCapture.imageCount < MaxImages
  /\ \E outcome \in CaptureOutcomes :
       LET r == processFrame(photogrammetryCapture, files, clock, outcome)
       IN  /\ photogrammetryCapture' = r.capture
           /\ files' = r.files
           /\ lastCall' = [Called("sessionDidUpdate") EXCEPT !.captured = r.captured]
  /\ UNCHANGED <<queues, variant, hasLiDAR, callbacks, running, delegate, scanning, clock>>

\* ARNativeModule.processPhotogrammetry: stopSession (pause, cleanup), the
\* PhotogrammetrySession on a capture object of its own, then startSession.
\* The Android bridge rejects every call.
processPhotogrammetry ==
  /\ IF variant = "android"
     THEN /\ lastCall' = [Called("processPhotogrammetry") EXCEPT
                            !.promise = "NOT_IMPLEMENTED"]
          /\ UNCHANGED <<running, delegate, callbacks, sceneAnchors>>
     ELSE IF ~hasLiDAR
     THEN /\ lastCall' = [Called("processPhotogrammetry") EXCEPT
                            !.promise = "PHOTOGRAMMETRY_NOT_SUPPORTED"]
          /\ UNCHANGED <<running, delegate, callbacks, sceneAnchors>>
     ELSE /\ \E succeeded \in BOOLEAN :
               lastCall' = [Called("processPhotogrammetry") EXCEPT
                              !.promise = IF succeeded THEN "resolved"
                                          ELSE "PHOTOGRAMMETRY_FAILED"]
          \* cleanup
          /\ delegate' = FALSE
          /\ callbacks' = FALSE
          \* session.pause(), later session.run(options:)
          /\ running' = TRUE
          /\ sceneAnchors' = {}
  /\ UNCHANGED <<queues, variant, hasLiDAR, photogrammetryCapture, isScanning, arrays,
                 meshAnchors, scanBoundingBox, nextAnchor, trapped, nextFrame,
                 clock, files>>

\* ------------------------------------------------------------------ Android
\* ARNativeModule.startObjectScan -> ARView.startObjectScan -> startCapture,
\* which throws when a capture is active; the result of mkdirs is not read.
startObjectScanAndroid ==
  /\ variant = "android"
  /\ TimestampedDirectoryMs(photogrammetryCapture) <= MaxCaptures
  /\ \E directoryCreated \in BOOLEAN :
       IF photogrammetryCapture.isCapturing
       THEN /\ lastCall' = [Called("startObjectScan") EXCEPT
                              !.promise = "START_SCAN_FAILED"]
            /\ UNCHANGED <<photogrammetryCapture, isScanning>>
       ELSE /\ photogrammetryCapture' =
                 startCapture(photogrammetryCapture,
                              IF directoryCreated
                              THEN TimestampedDirectoryMs(photogrammetryCapture)
                              ELSE 0 - TimestampedDirectoryMs(photogrammetryCapture))
            /\ isScanning' = TRUE
            /\ lastCall' = [Called("startObjectScan") EXCEPT
                              !.promise = "resolved", !.started = TRUE,
                              !.event = "started"]
  /\ UNCHANGED <<queues, variant, hasLiDAR, callbacks, running, delegate, arrays, lidar,
                 trapped, nextFrame, clock, files>>

\* ARNativeModule.stopObjectScan -> ARView.stopObjectScan -> stopCapture
stopObjectScanAndroid ==
  /\ variant = "android"
  /\ isScanning' = FALSE
  /\ photogrammetryCapture' = [photogrammetryCapture EXCEPT !.isCapturing = FALSE]
  /\ lastCall' = [Called("stopObjectScan") EXCEPT
                    !.promise = "resolved",
                    !.scan = [NoScanData EXCEPT !.scanType = "photogrammetry",
                                                !.vertexCount = photogrammetryCapture.imageCount],
                    !.event = "complete"]
  /\ UNCHANGED <<queues, variant, hasLiDAR, callbacks, running, delegate, arrays, lidar,
                 trapped, nextFrame, clock, files>>

\* ARNativeModule.clearScan -> ARView.clearScan: the capture is left alone
clearScanAndroid ==
  /\ variant = "android"
  /\ isScanning' = FALSE
  /\ lastCall' = [Called("clearScan") EXCEPT !.promise = "resolved"]
  /\ UNCHANGED <<queues, variant, hasLiDAR, callbacks, running, delegate, arrays, lidar,
                 trapped, nextFrame, clock, files, photogrammetryCapture>>

\* onDrawFrame: session.update(), then processFrame while scanning
onDrawFrame ==
  /\ variant = "android"
  /\ running
  /\ photogrammetryCapture.imageCount < MaxImages
  /\ \E outcome \in CaptureOutcomes :
       LET r == IF isScanning
                THEN processFrame(photogrammetryCapture, files, clock, outcome)
                ELSE [capture |-> photogrammetryCapture, files |-> files,
                      captured |-> FALSE]
       IN  /\ photogrammetryCapture' = r.capture
           /\ files' = r.files
           /\ lastCall' = [Called("onDrawFrame") EXCEPT !.captured = r.captured]
  /\ UNCHANGED <<queues, variant, hasLiDAR, callbacks, running, delegate, scanning, clock>>

PhotoNext ==
  \/ startObjectScanPhotogrammetry
  \/ stopObjectScanPhotogrammetry
  \/ clearScanPhotogrammetry
  \/ sessionDidUpdate
  \/ processPhotogrammetry
  \/ startObjectScanAndroid
  \/ stopObjectScanAndroid
  \/ clearScanAndroid
  \/ onDrawFrame
  \/ Tick

PhotoSpec == PhotoInit /\ [][PhotoNext]_vars

\* ========================================================= shape detection
\* analyzeClusterForShape and clusterPoints, the same text in both variants,
\* applied to the point arrays ShapeInit draws.
MinShapePoints == 30
MinExtent == 20
MaxExtent == 300

RECURSIVE SqrtIn(_, _, _)
\* the r in lo..hi-1 with r * r <= q < (r + 1) * (r + 1)
SqrtIn(q, lo, hi) ==
  IF hi - lo <= 1 THEN lo
  ELSE LET mid == (lo + hi) \div 2
       IN  IF mid * mid <= q THEN SqrtIn(q, mid, hi) ELSE SqrtIn(q, lo, mid)

\* sqrt, exact on the squares the inputs below produce
Sqrt(q) == SqrtIn(q, 0, q + 1)

\* Twice the horizontal distance of point pt from the centre of the box
CentreDistance2(box, pt) ==
  LET dx == 2 * pt[1] - (box.min[1] + box.max[1])
      dz == 2 * pt[3] - (box.min[3] + box.max[3])
  IN  Sqrt(dx * dx + dz * dz)

\* circularity < 0.25, with S the sum and Q the sum of squares of the n
\* distances: sqrt(variance) / avg < 1 / 4, i.e. 16 (n Q - S^2) < S^2
CircularityBelowQuarter(n, S, Q) == S > 0 /\ 16 * (n * Q - S * S) < S * S

RECURSIVE SumRange(_, _, _)
\* f[lo] + ... + f[hi], added up by halves
SumRange(f, lo, hi) ==
  IF lo = hi THEN f[lo]
  ELSE SumRange(f, lo, (lo + hi) \div 2) + SumRange(f, (lo + hi) \div 2 + 1, hi)

SumOver(f, n) == IF n = 0 THEN 0 ELSE SumRange(f, 1, n)

RECURSIVE BoxOfRange(_, _, _)
\* the component-wise min / max of cluster[lo..hi], taken by halves
BoxOfRange(cluster, lo, hi) ==
  IF lo = hi THEN BoxOf(cluster[lo])
  ELSE LET a == BoxOfRange(cluster, lo, (lo + hi) \div 2)
           b == BoxOfRange(cluster, (lo + hi) \div 2 + 1, hi)
       IN  [set |-> TRUE,
            min |-> <<Min(a.min[1], b.min[1]), Min(a.min[2], b.min[2]), Min(a.min[3], b.min[3])>>,
            max |-> <<Max(a.max[1], b.max[1]), Max(a.max[2], b.max[2]), Max(a.max[3], b.max[3])>>]

\* minPoint and maxPoint of analyzeClusterForShape
ClusterBox(cluster) ==
  IF cluster = <<>> THEN NoBox ELSE BoxOfRange(cluster, 1, Len(cluster))

\* the classification that returns nothing for an elongated cluster
analyzeClusterSquareOnly(cluster) ==
  LET n == Len(cluster)
      box == ClusterBox(cluster)
      width == box.max[1] - box.min[1]
      depth == box.max[3] - box.min[3]
      D == [i \in 1..n |-> CentreDistance2(box, cluster[i])]
      S == SumOver(D, n)
      Q == SumOver([i \in 1..n |-> D[i] * D[i]], n)
  IN  IF n < MinShapePoints THEN NoShape
      ELSE IF ~(width > MinExtent /\ width < MaxExtent /\ depth > MinExtent /\ depth < MaxExtent)
      THEN NoShape
      ELSE IF CircularityBelowQuarter(n, S, Q) /\ 10 * Max(width, depth) < 13 * Min(width, depth)
      THEN [shape |-> "CIRCLE", box |-> box]
      ELSE IF Max(width, depth) < 2 * Min(width, depth)
      THEN [shape |-> "RECTANGLE", box |-> box]
      ELSE NoShape

analyzeClusterForShape(cluster) ==
  LET n == Len(cluster)
      box == ClusterBox(cluster)
      width == box.max[1] - box.min[1]
      depth == box.max[3] - box.min[3]
      D == [i \in 1..n |-> CentreDistance2(box, cluster[i])]
      S == SumOver(D, n)
      Q == SumOver([i \in 1..n |-> D[i] * D[i]], n)
  IN  IF n < MinShapePoints THEN NoShape
      ELSE IF ~(width > MinExtent /\ width < MaxExtent /\ depth > MinExtent /\ depth < MaxExtent)
      THEN NoShape
      ELSE IF CircularityBelowQuarter(n, S, Q) /\ 10 * Max(width, depth) < 13 * Min(width, depth)
      THEN [shape |-> "CIRCLE", box |-> box]
      ELSE IF Max(width, depth) < 2 * Min(width, depth)
      THEN [shape |-> "RECTANGLE", box |-> box]
      ELSE IF Max(width, depth) >= 2 * Min(width, depth)
      THEN [shape |-> "RECTANGLE", box |-> box]
      ELSE NoShape

\* Clusters for the classification: n points in turn on the four ends of a
\* cross of half-width w and half-depth d (centimetres), each at a height
\* of its own, followed by `inner` points at the centre of the cross.
ShapeHalfExtents == {5, 12, 15, 18, 40, 160}
ShapeCounts == {29, 30, 36, 52}
MaxInner == 3

ShapeCluster(w, d, n, inner) ==
  [i \in 1..(n + inner) |->
     [id |-> <<1, i>>,
      p |-> IF i > n THEN <<0, i, 0>>
            ELSE IF i % 4 = 1 THEN <<w, i, 0>>
            ELSE IF i % 4 = 2 THEN <<-w, i, 0>>
            ELSE IF i % 4 = 3 THEN <<0, i, d>>
            ELSE <<0, i, -d>>]]

ShapeClusters ==
  {ShapeCluster(w, d, n, inner) :
     w \in ShapeHalfExtents, d \in ShapeHalfExtents, n \in ShapeCounts, inner \in 0..MaxInner}

\* clusterPoints: nearest-neighbour flood fill
ClusterMaxDistance == 30
ClusterSizeCap == 500
MinClusterSize == 50
MaxClusterCount == 5

IsNear(a, b, maxDist) == Dist2(a, b) < maxDist * maxDist

\* One pass of the inner while loop; stopped is the break on the size cap.
FillStep(s, maxDist) ==
  IF s.stopped \/ s.toProcess = <<>> THEN s
  ELSE LET point == Head(s.toProcess)
           grown == Append(s.cluster, point)
           near == SelectSeq(s.unprocessed, LAMBDA q : IsNear(point, q, maxDist))
           far == SelectSeq(s.unprocessed, LAMBDA q : ~IsNear(point, q, maxDist))
       IN  [cluster |-> grown, toProcess |-> Tail(s.toProcess) \o near,
            unprocessed |-> far, stopped |-> Len(grown) > ClusterSizeCap]

RECURSIVE FillSteps(_, _, _)
\* n passes in a row, the first half of them and then the rest
FillSteps(s, n, maxDist) ==
  IF n = 0 THEN s
  ELSE IF n = 1 THEN FillStep(s, maxDist)
  ELSE LET half == FillSteps(s, n \div 2, maxDist)
       IN  IF half.stopped \/ half.toProcess = <<>> THEN half
           ELSE FillSteps(half, n - n \div 2, maxDist)

\* the inner while loop: <<cluster, unprocessed>> when it ends; every pass
\* takes one point, so it ends within as many passes as there are points
FloodFill(cluster, toProcess, unprocessed, maxDist) ==
  LET end == FillSteps([cluster |-> cluster, toProcess |-> toProcess,
                        unprocessed |-> unprocessed, stopped |-> FALSE],
                       Len(toProcess) + Len(unprocessed), maxDist)
  IN  <<end.cluster, end.unprocessed>>

RECURSIVE ClusterLoop(_, _, _)
\* the outer while loop
ClusterLoop(clusters, unprocessed, maxDist) ==
  IF unprocessed = <<>> THEN clusters
  ELSE LET filled == FloodFill(<<>>, <<Head(unprocessed)>>, Tail(unprocessed), maxDist)
           kept == IF Len(filled[1]) > MinClusterSize THEN Append(clusters, filled[1])
                   ELSE clusters
       IN  IF Len(kept) >= MaxClusterCount THEN kept
           ELSE ClusterLoop(kept, filled[2], maxDist)

clusterPoints(points, maxDist) == ClusterLoop(<<>>, points, maxDist)

\* Clouds for the clustering: k blobs of m points each, a blob a metre from
\* the next, the points of a blob on a grid of 2 cm; blob by blob, or the
\* blobs interleaved.
MaxBlobs == 6
BlobGrid == 8
BlobSizes == {50, 51}
LargeBlobSizes == {500, 501, 502}

BlobPoint(j, i) ==
  <<100 * j + 2 * (i % BlobGrid), 2 * ((i \div BlobGrid) % BlobGrid),
    2 * (i \div (BlobGrid * BlobGrid))>>

BlobCloud(k, m, interleaved) ==
  [i \in 1..(k * m) |->
     [id |-> <<1, i>>,
      p |-> IF interleaved THEN BlobPoint((i - 1) % k, (i - 1) \div k)
            ELSE BlobPoint((i - 1) \div m, (i - 1) % m)]]

BlobClouds ==
  {BlobCloud(k, m, il) : k \in 1..MaxBlobs, m \in BlobSizes, il \in BOOLEAN}
    \cup {BlobCloud(1, m, FALSE) : m \in LargeBlobSizes}

ShapeInit ==
  /\ variant \in {"raycast", "featurePoint"}
  /\ hasLiDAR = FALSE
  /\ running = TRUE
  /\ delegate = TRUE
  /\ isScanning = FALSE
  /\ accumulatedPoints \in ShapeClusters \cup BlobClouds
  /\ pointCameraTransforms = <<>>
  /\ pointNormals = <<>>
  /\ meshAnchors = <<>>
  /\ scanBoundingBox = NoBox
  /\ sceneAnchors = {}
  /\ nextAnchor = 1
  /\ lastCall = Called("init")
  /\ trapped = FALSE
  /\ nextFrame = 1
  /\ hist = accumulatedPoints
  /\ photogrammetryCapture = NewCapture
  /\ callbacks = FALSE
  /\ clock = StartClock
  /\ files = {}
  /\ queues = NoQueues

\* analyzeClusterForShape applied to the cloud as one cluster
AnalyzeCluster ==
  /\ Fresh /\ accumulatedPoints \in ShapeClusters
  /\ lastCall' = [Called("analyzeClusterForShape") EXCEPT
                    !.shape = analyzeClusterForShape(Positions(accumulatedPoints))]
  /\ UNCHANGED <<device, running, delegate, isScanning, arrays, lidar, trapped, nextFrame>>

\* clusterPoints applied to the cloud, as detectShapes calls it
ClusterPoints ==
  /\ Fresh
  /\ lastCall' = [Called("clusterPoints") EXCEPT
                    !.clusters = clusterPoints(Positions(accumulatedPoints), ClusterMaxDistance)]
  /\ UNCHANGED <<device, running, delegate, isScanning, arrays, lidar, trapped, nextFrame>>

\* detectShapes: the detections visualizeShapeDetection is called with
detectShapes(points) ==
  LET clusters == clusterPoints(points, ClusterMaxDistance)
      results == [c \in 1..Len(clusters) |-> analyzeClusterForShape(clusters[c])]
  IN  IF Len(clusters) = 0 THEN <<>> ELSE SelectSeq(results, LAMBDA r : r # NoShape)

DetectShapes ==
  /\ Fresh /\ accumulatedPoints # <<>>
  /\ lastCall' = [Called("detectShapes") EXCEPT
                    !.shapes = detectShapes(Positions(accumulatedPoints))]
  /\ UNCHANGED <<device, running, delegate, isScanning, arrays, lidar, trapped, nextFrame>>

ShapeNext ==
  \/ AnalyzeCluster
  \/ ClusterPoints
  \/ DetectShapes

ShapeSpec == ShapeInit /\ [][ShapeNext]_vars

\* ================================================================== queues
\* Who runs when: session(_:didUpdate:) is delivered on the main queue (no
\* delegateQueue is set), the bridge runs its calls in DispatchQueue.main
\* blocks, the visualization is a main block and detectShapes of the
\* feature-point variant a block on processingQueue.  The frame callback is
\* taken one statement on the arrays at a time; of the handlers of Spec the
\* reads and writes of the three arrays are kept.

\* frames that carry points, per behaviour
QueueFrames == 2

\* the main queue runs one block at a time, to its end
MainAlwaysFree(q) == TRUE
MainIsFree(q) == q.frame.pc = 0

\* the statements of session(_:didUpdate:) on the arrays, in program order;
\* last is the visualization or shape detection the frame may end with
FrameProgram(last) ==
  IF variant = "raycast"
  THEN (IF isScanning
        THEN <<"appendPoints", "appendTransforms", "appendNormals",
               "evictPoints", "evictTransforms", "evictNormals">>
        ELSE <<"appendPoints", "appendNormals", "evictPoints", "evictNormals">>)
       \o (IF last THEN <<"visualize">> ELSE <<>>)
  ELSE <<"appendPoints", "evictPoints">>
       \o (IF ~last THEN <<>>
           ELSE IF isScanning THEN <<"visualizeLive">> ELSE <<"detectShapes">>)

\* the hard limit the frame applies
FrameCap ==
  IF variant = "raycast"
  THEN (IF isScanning THEN ScanCapRaycast ELSE IdleCapRaycast)
  ELSE (IF isScanning THEN ScanCapFeature ELSE IdleCapFeature)

\* a frame that passes the interval tests and carries points starts
FrameBegins ==
  /\ variant \in {"raycast", "featurePoint"}
  /\ ~trapped /\ running /\ delegate /\ ~hasLiDAR
  /\ queues.frame.pc = 0 /\ MainIsFree(queues)
  /\ nextFrame <= QueueFrames
  /\ \E k \in 1..MaxBatch, last \in BOOLEAN :
       LET sampleStride == IF isScanning THEN ScanSampleStride ELSE IdleSampleStride
           batch == IF variant = "raycast"
                    THEN performRaycastScanning(nextFrame, k)
                    ELSE SampledPoints(nextFrame, k * sampleStride, sampleStride)
       IN  queues' = [queues EXCEPT !.frame =
                        [pc |-> 1, steps |-> FrameProgram(last), batch |-> batch,
                         removeCount |-> 0]]
  /\ lastCall' = Called("frame")
  /\ UNCHANGED <<variant, hasLiDAR, photogrammetryCapture, callbacks, clock, files,
                 running, delegate, isScanning, arrays, lidar, trapped, nextFrame>>

\* the next statement of the frame callback under way
FrameStep ==
  /\ queues.frame.pc > 0
  /\ LET fr == queues.frame
         step == fr.steps[fr.pc]
         last == fr.pc = Len(fr.steps)
         cnt == Len(fr.batch)
         removeCount == IF step = "evictPoints"
                        THEN Max(0, Len(accumulatedPoints) - FrameCap)
                        ELSE fr.removeCount
         pts == IF step = "appendPoints" THEN accumulatedPoints \o fr.batch
                ELSE IF step = "evictPoints" THEN DropFirst(accumulatedPoints, removeCount)
                ELSE accumulatedPoints
         tfs == IF step = "appendTransforms"
                THEN pointCameraTransforms \o [j \in 1..cnt |-> SceneCamera(nextFrame)]
                ELSE IF step = "evictTransforms"
                THEN DropFirst(pointCameraTransforms, removeCount)
                ELSE pointCameraTransforms
         nms == IF step = "appendNormals"
                THEN pointNormals \o [j \in 1..cnt |-> HitNormal(fr.batch[j].id)]
                ELSE IF step = "evictNormals" THEN DropFirst(pointNormals, removeCount)
                ELSE pointNormals
     IN  /\ accumulatedPoints' = pts
         /\ pointCameraTransforms' = tfs
         /\ pointNormals' = nms
         /\ nextFrame' = IF last THEN nextFrame + 1 ELSE nextFrame
         /\ queues' =
              [queues EXCEPT
                 !.frame = IF last THEN NoQueues.frame
                           ELSE [fr EXCEPT !.pc = @ + 1, !.removeCount = removeCount],
                 \* let copy = accumulatedPoints; DispatchQueue.main.async
                 !.main = IF step = "visualize"
                          THEN @ \cup {[kind |-> "copy", copy |-> pts]}
                          ELSE IF step = "visualizeLive"
                          THEN @ \cup {[kind |-> "live", copy |-> <<>>]}
                          ELSE @,
                 \* let pointsCopy = accumulatedPoints; processingQueue.async
                 !.processing = IF step = "detectShapes" THEN @ \cup {[copy |-> pts]}
                                ELSE @,
                 !.boundary = IF last THEN <<pts, tfs, nms>> ELSE @]
  /\ lastCall' = Called("frame")
  /\ UNCHANGED <<variant, hasLiDAR, photogrammetryCapture, callbacks, clock, files,
                 running, delegate, isScanning, hist, lidar, trapped>>

\* updateScanVisualization as a block of the main queue: it draws the copy
\* it was given (raycast variant) or self.accumulatedPoints
MainBlockRuns ==
  /\ MainIsFree(queues)
  /\ \E b \in queues.main :
       queues' = [queues EXCEPT
                    !.main = @ \ {b},
                    !.observed =
                      IF b.kind = "copy"
                      THEN [by |-> "visualization", seen |-> <<b.copy>>,
                            boundary |-> <<b.copy>>]
                      ELSE [by |-> "visualization", seen |-> <<accumulatedPoints>>,
                            boundary |-> <<queues.boundary[1]>>]]
  /\ lastCall' = Called("updateScanVisualization")
  /\ UNCHANGED <<variant, hasLiDAR, photogrammetryCapture, callbacks, clock, files,
                 running, delegate, isScanning, arrays, lidar, trapped, nextFrame>>

\* a call of the bridge, run in its DispatchQueue.main.async block
BridgeBlockRuns ==
  /\ variant \in {"raycast", "featurePoint"} /\ ~trapped
  /\ MainIsFree(queues)
  /\ \E op \in {"startObjectScan", "stopObjectScan", "clearScan", "exportScanAsOBJ"} :
       LET pts == IF op = "startObjectScan" \/ (op = "clearScan" /\ variant = "raycast")
                  THEN <<>> ELSE accumulatedPoints
           tfs == IF op = "clearScan" /\ variant = "raycast"
                  THEN <<>> ELSE pointCameraTransforms
           nms == IF op = "clearScan" /\ variant = "raycast"
                  THEN <<>> ELSE pointNormals
           reads == op \in {"stopObjectScan", "exportScanAsOBJ"}
       IN  /\ accumulatedPoints' = pts
           /\ pointCameraTransforms' = tfs
           /\ pointNormals' = nms
           /\ isScanning' = IF op = "startObjectScan" THEN TRUE
                            ELSE IF op = "exportScanAsOBJ" THEN isScanning
                            ELSE FALSE
           /\ queues' =
                [queues EXCEPT
                   !.boundary = IF reads THEN @ ELSE <<pts, tfs, nms>>,
                   !.observed =
                     IF ~reads THEN @
                     ELSE [by |-> op,
                           seen |-> <<accumulatedPoints, pointCameraTransforms, pointNormals>>,
                           boundary |-> queues.boundary]]
           /\ lastCall' = [Called(op) EXCEPT
                             !.points = IF reads THEN accumulatedPoints ELSE <<>>]
  /\ UNCHANGED <<variant, hasLiDAR, photogrammetryCapture, callbacks, clock, files,
                 running, delegate, hist, lidar, trapped, nextFrame>>

\* detectShapes on processingQueue: clusterPoints(pointsCopy, maxDistance: 0.3)
ProcessingBlockRuns ==
  /\ \E job \in queues.processing :
       /\ queues' = [queues EXCEPT
                       !.processing = @ \ {job},
                       !.detected = [by |-> "detectShapes", seen |-> <<job.copy>>,
                                     boundary |-> <<job.copy>>]]
       /\ lastCall' = [Called("detectShapes") EXCEPT
                         !.clusters = clusterPoints(Positions(job.copy), ClusterMaxDistance)]
  /\ UNCHANGED <<variant, hasLiDAR, photogrammetryCapture, callbacks, clock, files,
                 running, delegate, isScanning, arrays, lidar, trapped, nextFrame>>

QueueNext ==
  \/ FrameBegins
  \/ FrameStep
  \/ MainBlockRuns
  \/ BridgeBlockRuns
  \/ ProcessingBlockRuns

QueueSpec == Init /\ [][QueueNext]_vars

\* ============================================================== properties
\* C1 (Spec): while a scan is running the cloud never holds more than the
\* scanning limit of the variant, and it is exactly the most recently added
\* samples of the scan, up to that limit, in the order they were added.
C1_PointCloudCap ==
  isScanning =>
    LET cap == IF variant = "raycast" THEN ScanCapRaycast ELSE ScanCapFeature
        n == Len(hist)
    IN  /\ Len(accumulatedPoints) <= cap
        /\ accumulatedPoints = SubSeq(hist, n - Min(n, cap) + 1, n)

\* A scanning frame has just evicted the oldest samples of a full cloud.
C1_Evicted ==
  /\ isScanning /\ lastCall.op = "frame"
  /\ Len(accumulatedPoints) = (IF variant = "raycast" THEN ScanCapRaycast ELSE ScanCapFeature)
  /\ Len(hist) > Len(accumulatedPoints)

\* C2 (GeoSpec): every index of every face of a mesh made from accumulated
\* points names a vertex: 0 <= i < vertexCount in the stopObjectScan result
\* (stride triangulation, for every count up to the limits) and 1 <= i <=
\* number of "v" lines in the OBJ text (pose-aware and fallback triangulation).
C2_FaceIndicesValid ==
  /\ lastCall.op \in {"stopObjectScan", "strideTriangulation"} =>
       \A k \in 1..Len(lastCall.scan.faces) : \A m \in 1..3 :
         /\ 0 <= lastCall.scan.faces[k][m]
         /\ lastCall.scan.faces[k][m] < lastCall.scan.vertexCount
  /\ lastCall.op = "exportScanAsOBJ" =>
       \A k \in 1..Len(lastCall.obj.f) : \A m \in 1..3 :
         /\ 1 <= lastCall.obj.f[k][m][1]
         /\ lastCall.obj.f[k][m][1] <= Len(lastCall.obj.v)

\* An export wrote the faces of the pose-aware triangulation.
C2_PoseAwareFacesWritten ==
  /\ lastCall.op = "exportScanAsOBJ"
  /\ UsesPoseAware(Positions(accumulatedPoints), pointCameraTransforms)
  /\ Len(lastCall.obj.f) > 0

\* C3 (Spec): with fewer than 3 accumulated points, in every variant,
\* stopObjectScan on the feature-point path completes without a runtime trap
\* and returns the accumulated points as vertices with no faces, and the
\* triangulator returns no faces.
C3_DegenerateInput ==
  (/\ lastCall.op = "stopObjectScan"
   /\ ~(hasLiDAR /\ meshAnchors # <<>>)
   /\ Len(accumulatedPoints) < 3) =>
    /\ ~trapped
    /\ lastCall.scan.vertices = Positions(accumulatedPoints)
    /\ lastCall.scan.faces = <<>>
    /\ generateMeshFromPoints(Positions(accumulatedPoints), pointCameraTransforms) = <<>>

\* C4 (GeoSpec): filterOutliers returns a non-empty array for a non-empty
\* input, and the input itself, in order, when no two of its points are
\* closer than the neighbour radius.
C4_FilterFailOpen ==
  lastCall.op = "filterOutliers" =>
    LET S == accumulatedPoints
        allIsolated ==
          \A i, j \in 1..Len(S) :
            i # j => Dist2(S[i].p, S[j].p) >= neighborRadius * neighborRadius
    IN  /\ S # <<>> => lastCall.points # <<>>
        /\ allIsolated => lastCall.points = S

\* The filter ran its density pass on more than 3 points, all isolated.
C4_AllIsolatedFiltered ==
  /\ lastCall.op = "filterOutliers"
  /\ Len(accumulatedPoints) > 3
  /\ \A i, j \in 1..Len(accumulatedPoints) :
       i # j => Dist2(accumulatedPoints[i].p, accumulatedPoints[j].p)
                  >= neighborRadius * neighborRadius
  /\ lastCall.points = accumulatedPoints

\* C5 (Spec): right after startObjectScan the point cloud, the camera
\* transforms, the normals, the bounding box and the mesh anchors are empty
\* and isScanning is true.
C5_StartResets ==
  lastCall.op = "startObjectScan" =>
    /\ isScanning
    /\ accumulatedPoints = <<>>
    /\ pointCameraTransforms = <<>>
    /\ pointNormals = <<>>
    /\ scanBoundingBox = NoBox
    /\ meshAnchors = <<>>

\* C6 (Spec): in every variant, right after clearScan the session is not
\* scanning and holds no points, transforms, normals, bounding box or mesh
\* anchors, and an exportScanAsOBJ that follows it at once returns nil.
C6_ClearDiscards ==
  [][/\ lastCall'.op = "clearScan" =>
          /\ ~isScanning'
          /\ accumulatedPoints' = <<>>
          /\ pointCameraTransforms' = <<>>
          /\ pointNormals' = <<>>
          /\ scanBoundingBox' = NoBox
          /\ meshAnchors' = <<>>
     /\ (lastCall.op = "clearScan" /\ lastCall'.op = "exportScanAsOBJ") =>
          lastCall'.obj = ObjNil]_vars

\* C7 (Spec): a frame callback that follows stopObjectScan leaves the
\* accumulated point cloud as the stop reported it.
C7_StopHaltsAccumulation ==
  [][(lastCall.op = "stopObjectScan" /\ lastCall'.op = "frame") =>
       /\ accumulatedPoints' = accumulatedPoints
       /\ Positions(accumulatedPoints') = lastCall.scan.vertices]_vars

\* C8 (Spec): the faces stopObjectScan returns on the feature-point path are
\* the faces of generateMeshFromPoints for the accumulated points, which are
\* the faces exportScanAsOBJ writes for the same state.
C8_StopReturnsTriangulation ==
  (/\ lastCall.op = "stopObjectScan" /\ ~trapped
   /\ ~(hasLiDAR /\ meshAnchors # <<>>)
   /\ accumulatedPoints # <<>>) =>
    /\ variant = "raycast" =>
         lastCall.scan.faces =
           generateMeshFromPoints(Positions(accumulatedPoints), pointCameraTransforms)
    /\ [k \in 1..Len(lastCall.scan.faces) |-> ObjFace(lastCall.scan.faces[k])]
         = exportScanAsOBJ.f

\* C9 (Spec): when an export takes the pose-aware branch, transform i is the
\* camera transform of the frame that produced accumulated point i.
C9_PosesAligned ==
  (/\ lastCall.op \in {"exportScanAsOBJ", "saveOBJToFile"}
   /\ variant = "raycast"
   /\ lastCall.obj.kind = "featurePoints"
   /\ UsesPoseAware(Positions(accumulatedPoints), pointCameraTransforms)) =>
    \A i \in 1..Len(accumulatedPoints) :
      pointCameraTransforms[i] = SceneCamera(accumulatedPoints[i].id[1])

\* C10 (Spec): the normals an export of the raycast variant writes are the
\* supplied normals of the accumulated points, index by index (every point
\* of that variant is appended together with the normal of its raycast hit).
C10_SuppliedNormalsPreferred ==
  (/\ lastCall.op = "exportScanAsOBJ"
   /\ variant = "raycast"
   /\ lastCall.obj.kind = "featurePoints") =>
    lastCall.obj.vn = [i \in 1..Len(accumulatedPoints) |-> HitNormal(accumulatedPoints[i].id)]

\* C11 (GeoSpec): the pose-aware triangulation returns at most 4 faces per
\* input point.
C11_FaceCap ==
  (/\ lastCall.op = "exportScanAsOBJ"
   /\ variant = "raycast"
   /\ UsesPoseAware(Positions(accumulatedPoints), pointCameraTransforms)) =>
    Len(lastCall.obj.f) <= 4 * Len(accumulatedPoints)

\* The limit cut the face list: the seeds hold more faces than were returned.
C11_CapReached ==
  /\ lastCall.op = "exportScanAsOBJ"
  /\ variant = "raycast"
  /\ UsesPoseAware(Positions(accumulatedPoints), pointCameraTransforms)
  /\ Len(lastCall.obj.f) = 4 * Len(accumulatedPoints)
  /\ Len(PoseAwareFacesUncapped(Positions(accumulatedPoints), pointCameraTransforms))
       > 4 * Len(accumulatedPoints)

\* C12 (GeoSpec): every face an export writes has a 3D area above the floor
\* of the branch that made it (0.0002 pose-aware, 0.0001 fallback; |cross| >
\* 2 * floor in cm^2), so no zero-area or collinear triangle is written.
C12_FaceAreaFloor ==
  (lastCall.op = "exportScanAsOBJ" /\ variant = "raycast") =>
    LET P == lastCall.obj.v
        floor == IF UsesPoseAware(Positions(accumulatedPoints), pointCameraTransforms)
                 THEN minAreaPose ELSE minAreaSimple
    IN  \A k \in 1..Len(lastCall.obj.f) :
          LET a == P[lastCall.obj.f[k][1][1]]
              b == P[lastCall.obj.f[k][2][1]]
              c == P[lastCall.obj.f[k][3][1]]
              n == Cross(Sub(b, a), Sub(c, a))
          IN  /\ n # Zero3
              /\ n[1] * n[1] + n[2] * n[2] + n[3] * n[3] > 4 * floor * floor

\* Faces were written for a cloud that holds the same position twice, so a
\* zero-area candidate was met and skipped.
C12_DegenerateSkipped ==
  /\ lastCall.op = "exportScanAsOBJ" /\ variant = "raycast"
  /\ Len(lastCall.obj.f) > 0
  /\ \E i, j \in 1..Len(accumulatedPoints) :
       /\ i < j
       /\ accumulatedPoints[i].p = accumulatedPoints[j].p
       /\ \E k \in 1..Len(lastCall.obj.f) : lastCall.obj.f[k][1][1] = i

\* C13 (GeoSpec): for every face [a, b, c] of the pose-aware triangulation
\* the normal (b - a) x (c - a) has a non-negative dot product with the
\* vector from the centroid of the triangle to the average camera position
\* (both scaled by 3 * number of poses).
C13_FacesTowardsCamera ==
  (/\ lastCall.op = "exportScanAsOBJ" /\ variant = "raycast"
   /\ UsesPoseAware(Positions(accumulatedPoints), pointCameraTransforms)) =>
    LET P == lastCall.obj.v
        C == SumCameraPos(pointCameraTransforms)
        m == Len(pointCameraTransforms)
    IN  \A k \in 1..Len(lastCall.obj.f) :
          LET a == P[lastCall.obj.f[k][1][1]]
              b == P[lastCall.obj.f[k][2][1]]
              c == P[lastCall.obj.f[k][3][1]]
          IN  Dot(Cross(Sub(b, a), Sub(c, a)),
                  Sub(Scale(3, C), Scale(m, Add(Add(a, b), c)))) >= 0

\* A face was written with its winding flipped: its second vertex comes
\* after its third in the neighbor order of its seed.
C13_FlippedFaceWritten ==
  /\ lastCall.op = "exportScanAsOBJ" /\ variant = "raycast"
  /\ UsesPoseAware(Positions(accumulatedPoints), pointCameraTransforms)
  /\ \E k \in 1..Len(lastCall.obj.f) :
       LET seed == lastCall.obj.f[k][1][1] - 1
           nb == PoseNeighbors(Positions(accumulatedPoints), pointCameraTransforms, seed)
       IN  \E x, y \in 1..Len(nb) :
             /\ x < y
             /\ nb[y] = lastCall.obj.f[k][2][1] - 1
             /\ nb[x] = lastCall.obj.f[k][3][1] - 1

\* C14 as stated (Spec): in the OBJ text of a feature-point scan, whichever
\* ARView wrote it, there are as many vn lines as v lines and every face
\* line is "f i//i j//j k//k" with i, j, k the 0-based mesh indices plus one,
\* all within 1..(number of v lines).
C14_ObjWellFormedAnyVariant ==
  (/\ lastCall.op \in {"exportScanAsOBJ", "saveOBJToFile"}
   /\ lastCall.obj.kind = "featurePoints") =>
    LET faces == generateMeshFromPoints(Positions(accumulatedPoints), pointCameraTransforms)
    IN  /\ Len(lastCall.obj.vn) = Len(lastCall.obj.v)
        /\ variant = "raycast" => Len(lastCall.obj.f) = Len(faces)
        /\ \A k \in 1..Len(lastCall.obj.f) : \A m \in 1..3 :
             /\ lastCall.obj.f[k][m][1] = lastCall.obj.f[k][m][2]
             /\ variant = "raycast" => lastCall.obj.f[k][m][1] = faces[k][m] + 1
             /\ lastCall.obj.f[k][m][1] \in 1..Len(lastCall.obj.v)

\* C14 amended (Spec): the same for the OBJ text of the ARView that computes
\* normals and faces on export (the raycast variant).
C14_ObjWellFormed ==
  variant = "raycast" => C14_ObjWellFormedAnyVariant

\* An export of the raycast variant wrote faces while the stored normals
\* did not match the points in number, so the vn lines were computed.
C14_FacesAndComputedNormals ==
  /\ lastCall.op = "exportScanAsOBJ" /\ variant = "raycast"
  /\ lastCall.obj.kind = "featurePoints"
  /\ Len(lastCall.obj.f) > 0
  /\ Len(pointNormals) # Len(accumulatedPoints)

\* C15 (GeoSpec): for an input of more than 3 points, unless nothing would
\* be kept, filterOutliers returns exactly the points whose neighbour count
\* is >= max(2, round(0.3 * median)), in input order (median: the element
\* count / 2 of the sorted neighbour counts).
C15_ThresholdRounded ==
  (lastCall.op = "filterOutliers" /\ Len(accumulatedPoints) > 3) =>
    LET S == accumulatedPoints
        rounded == Max(2, (3 * MedianScore(S) + 5) \div 10)
        idx == SelectSeq([i \in 1..Len(S) |-> i], LAMBDA i : DensityScore(S, i) >= rounded)
        kept == [k \in 1..Len(idx) |-> S[idx[k]]]
    IN  kept # <<>> => lastCall.points = kept

\* C16: for a cluster of at least 30 points whose width and depth are within
\* (0.2 m, 3 m), analyzeClusterForShape returns exactly one label: CIRCLE when
\* the deviation of the horizontal distances from the centre of the bounding
\* box is below a quarter of their mean and the longer side is below 1.3
\* times the shorter, RECTANGLE otherwise; for fewer than 30 points or a width
\* or depth outside the range it returns nothing.
C16_HorizontalDistances ==
  LET P == Positions(accumulatedPoints)
      xs == {P[i][1] : i \in 1..Len(P)}
      zs == {P[i][3] : i \in 1..Len(P)}
      loX == CHOOSE x \in xs : \A y \in xs : x <= y
      hiX == CHOOSE x \in xs : \A y \in xs : x >= y
      loZ == CHOOSE z \in zs : \A y \in zs : z <= y
      hiZ == CHOOSE z \in zs : \A y \in zs : z >= y
  IN  [width |-> hiX - loX, depth |-> hiZ - loZ,
       \* twice the distance of each point from the centre, squared
       sq |-> [i \in 1..Len(P) |->
                 (2 * P[i][1] - (loX + hiX)) * (2 * P[i][1] - (loX + hiX))
                   + (2 * P[i][3] - (loZ + hiZ)) * (2 * P[i][3] - (loZ + hiZ))]]

C16_ExpectedLabel ==
  LET h == C16_HorizontalDistances
      n == Len(accumulatedPoints)
      inRange(e) == e > MinExtent /\ e < MaxExtent
      \* every squared distance of the inputs is a square
      dist == [i \in 1..n |-> CHOOSE r \in 0..(2 * (h.width + h.depth)) : r * r = h.sq[i]]
      total == SumOver(dist, n)
      squares == SumOver(h.sq, n)
      long == Max(h.width, h.depth)
      short == Min(h.width, h.depth)
  IN  IF n < MinShapePoints \/ ~inRange(h.width) \/ ~inRange(h.depth) THEN "nil"
      ELSE IF 16 * (n * squares - total * total) < total * total /\ 10 * long < 13 * short
      THEN "CIRCLE"
      ELSE "RECTANGLE"

C16_ShapeRule ==
  lastCall.op = "analyzeClusterForShape" => lastCall.shape.shape = C16_ExpectedLabel

C16_ElongatedIsRectangle ==
  /\ lastCall.op = "analyzeClusterForShape"
  /\ lastCall.shape.shape = "RECTANGLE"
  /\ Len(accumulatedPoints) >= MinShapePoints
  /\ LET h == C16_HorizontalDistances
     IN  Max(h.width, h.depth) >= 2 * Min(h.width, h.depth)

\* C20: clusterPoints returns at most 5 clusters, and no returned cluster
\* holds more than 500 points.
C20_ClusterCaps ==
  lastCall.op = "clusterPoints" =>
    /\ Len(lastCall.clusters) <= MaxClusterCount
    /\ \A i \in 1..Len(lastCall.clusters) : Len(lastCall.clusters[i]) <= ClusterSizeCap
\* C17 (Spec): in every stopObjectScan result of the feature-point path that
\* holds a vertex, each vertex lies between boundingBox.min and
\* boundingBox.max in every component and each bound is the component of
\* some returned vertex; a result without vertices has the empty box.
C17_BoundingBoxExact ==
  (lastCall.op = "stopObjectScan" /\ lastCall.scan.scanType = "featurePoints") =>
    LET V == lastCall.scan.vertices
        b == lastCall.scan.boundingBox
    IN  IF V = <<>> THEN b = NoBox
        ELSE /\ b.set
             /\ \A c \in 1..3 :
                  /\ \A i \in 1..Len(V) : b.min[c] <= V[i][c] /\ V[i][c] <= b.max[c]
                  /\ \E i \in 1..Len(V) : V[i][c] = b.min[c]
                  /\ \E i \in 1..Len(V) : V[i][c] = b.max[c]

C17_BoxOfSeveralVertices ==
  /\ lastCall.op = "stopObjectScan"
  /\ lastCall.scan.scanType = "featurePoints"
  /\ Len(lastCall.scan.vertices) >= 3
  /\ lastCall.scan.boundingBox.min[1] < lastCall.scan.boundingBox.max[1]
  /\ lastCall.scan.boundingBox.min[2] < lastCall.scan.boundingBox.max[2]
\* C18 (PhotoSpec): the promise of startObjectScan resolves only when the
\* call started a capture in the view.
C18_ResolvedMeansStarted ==
  (lastCall.op = "startObjectScan" /\ lastCall.promise = "resolved") => lastCall.started

\* C19 (PhotoSpec): a processPhotogrammetry that ran the session, on success
\* and on failure alike, leaves the session running, the frame delegate as
\* attached as it was and the scan callbacks as registered as they were.
C19_SessionRestored ==
  [][(lastCall'.op = "processPhotogrammetry"
        /\ lastCall'.promise \in {"resolved", "PHOTOGRAMMETRY_FAILED"})
       => (running' /\ delegate' = delegate /\ callbacks' = callbacks)]_vars
\* C21 (ShapeSpec): when the whole cloud is one flood-fill cluster of at
\* least 30 points whose width and depth are within the accepted range,
\* detectShapes yields a shape detection for it.
C21_OneCluster ==
  LET P == Positions(accumulatedPoints)
      h == C16_HorizontalDistances
  IN  /\ Len(P) >= MinShapePoints
      /\ Len(P) <= ClusterSizeCap
      /\ Len(FloodFill(<<>>, <<Head(P)>>, Tail(P), ClusterMaxDistance)[1]) = Len(P)
      /\ h.width > MinExtent /\ h.width < MaxExtent
      /\ h.depth > MinExtent /\ h.depth < MaxExtent

C21_ClusterAnalysed ==
  (lastCall.op = "detectShapes" /\ C21_OneCluster) => Len(lastCall.shapes) = 1
\* C22 as stated (GeoSpec): in fallback mode the faces of a seed among the
\* first 200 points are the triples (seed, a, b) where a is among the 4
\* nearest and b among the 6 nearest of all other points within 0.1 of the
\* seed, a before b, distance(a, b) < 0.1 and area > 0.0001.
C22_Rank(P, i, cands, j) ==
  Cardinality({m \in cands :
                 \/ Dist2(P[i + 1], P[m + 1]) < Dist2(P[i + 1], P[j + 1])
                 \/ Dist2(P[i + 1], P[m + 1]) = Dist2(P[i + 1], P[j + 1]) /\ m < j})

C22_Expected(P, i, cands) ==
  {<<i, a, b>> : a \in cands, b \in cands} \cap
    {t \in {i} \X cands \X cands :
       /\ C22_Rank(P, i, cands, t[2]) < 4
       /\ C22_Rank(P, i, cands, t[3]) < 6
       /\ C22_Rank(P, i, cands, t[2]) < C22_Rank(P, i, cands, t[3])
       /\ Dist2(P[t[2] + 1], P[t[3] + 1]) < maxDistance * maxDistance
       /\ LET c == Cross(Sub(P[t[2] + 1], P[i + 1]), Sub(P[t[3] + 1], P[i + 1]))
          IN  c[1] * c[1] + c[2] * c[2] + c[3] * c[3] > 4 * minAreaSimple * minAreaSimple}

C22_Fallback ==
  /\ lastCall.op = "exportScanAsOBJ"
  /\ variant = "raycast"
  /\ Len(accumulatedPoints) >= 3
  /\ ~UsesPoseAware(Positions(accumulatedPoints), pointCameraTransforms)

C22_WrittenFaces ==
  {<<lastCall.obj.f[k][1][1] - 1, lastCall.obj.f[k][2][1] - 1, lastCall.obj.f[k][3][1] - 1>> :
     k \in 1..Len(lastCall.obj.f)}

C22_NeighboursAnyIndex ==
  C22_Fallback =>
    LET P == Positions(accumulatedPoints)
        n == Len(P)
    IN  C22_WrittenFaces =
          UNION {C22_Expected(P, i,
                   {j \in (0..(n - 1)) \ {i} :
                      Dist2(P[i + 1], P[j + 1]) < maxDistance * maxDistance}) :
                 i \in 0..(Min(n, SimpleSeedLimit) - 1)}

\* C22 as the code has it: the candidates of a seed are the points after it
\* in the array within 0.1 of it, nearest first and equal distances in array
\* order.
C22_NeighboursAfterSeed ==
  C22_Fallback =>
    LET P == Positions(accumulatedPoints)
        n == Len(P)
    IN  C22_WrittenFaces =
          UNION {C22_Expected(P, i,
                   {j \in (i + 1)..(n - 1) :
                      Dist2(P[i + 1], P[j + 1]) < maxDistance * maxDistance}) :
                 i \in 0..(Min(n, SimpleSeedLimit) - 1)}

\* A seed with seven candidates after it: the limits of 4 and 6 left out
\* a pair that passes the distance and area tests, and kept others.
C22_LimitsCut ==
  /\ C22_Fallback
  /\ accumulatedPoints \in SimpleClouds
  /\ LET P == Positions(accumulatedPoints)
         after == {j \in 1..(Len(P) - 1) : Dist2(P[1], P[j + 1]) < maxDistance * maxDistance}
     IN  /\ Cardinality(after) = 7
         /\ \E a \in after, b \in after :
              /\ <<0, a, b>> \in C22_WrittenFaces
         /\ \E a \in after, b \in after :
              /\ Dist2(P[a + 1], P[b + 1]) < maxDistance * maxDistance
              /\ AreaExceeds(P, 0, a, b, minAreaSimple)
              /\ <<0, a, b>> \notin C22_WrittenFaces
              /\ <<0, b, a>> \notin C22_WrittenFaces
\* C23 (GeoSpec): when the normals are recomputed, the neighbours gathered for
\* a point are the nearest other points within 0.05 of it (no point inside
\* the radius that is closer than a gathered neighbour is left out), at most
\* 6 of them; one normal is written per point, and it is (0,1,0) for a point
\* with fewer than 2 neighbours.
C23_NearestNeighbours ==
  (/\ lastCall.op = "exportScanAsOBJ"
   /\ variant = "raycast"
   /\ Len(accumulatedPoints) >= 3
   /\ Len(pointNormals) # Len(accumulatedPoints)) =>
    LET P == Positions(accumulatedPoints)
        inside(i) == {q \in (1..Len(P)) \ {i} : Dist2(P[i], P[q]) < searchRadius * searchRadius}
        gathered(i) == {NormalNeighbors(P, i)[k] : k \in 1..Len(NormalNeighbors(P, i))}
    IN  /\ Len(lastCall.obj.vn) = Len(P)
        /\ \A i \in 1..Len(P) :
             /\ gathered(i) \subseteq inside(i)
             /\ Cardinality(gathered(i)) = Min(6, Cardinality(inside(i)))
             /\ \A s \in gathered(i), q \in inside(i) :
                  Dist2(P[i], P[q]) < Dist2(P[i], P[s]) => q \in gathered(i)
             /\ Cardinality(inside(i)) < 2 => lastCall.obj.vn[i] = UpNormal
\* C24 (PhotoSpec): on Android, when clearScan ran on a capture that
\* startObjectScan began and stopObjectScan did not end, the startObjectScan
\* that follows resolves and begins a capture with image count 0.
C24_StartAfterClear ==
  [][(/\ variant = "android"
      /\ lastCall.op = "clearScan"
      /\ photogrammetryCapture.isCapturing
      /\ lastCall'.op = "startObjectScan")
       => (/\ lastCall'.promise = "resolved"
           /\ lastCall'.started
           /\ photogrammetryCapture'.isCapturing
           /\ photogrammetryCapture'.imageCount = 0)]_vars

\* the images both of whose files one processFrame wrote
C25_RecordedImages ==
  {f \in files : /\ f.kind = "json"
                 /\ \E g \in files : /\ g.kind = "jpg" /\ g.dir = f.dir
                                     /\ g.index = f.index /\ g.time = f.time}

\* the images the capture in progress has recorded
C25_ImagesOfCapture(capture, fs) ==
  IF capture.captureDirectory = <<>> THEN {}
  ELSE {f \in fs : /\ f.kind = "json"
                   /\ f.dir = capture.captureDirectory[1]
                   /\ f.index < capture.imageCount}

C30_CompleteIndices(dir) ==
  {f.index : f \in {g \in files : /\ g.dir = dir /\ g.kind = "json"
                                  /\ \E h \in files : /\ h.dir = dir /\ h.kind = "jpg"
                                                      /\ h.index = g.index}}

\* C30 (PhotoSpec): when stopObjectScan returns, the indices whose two files
\* are in the directory of the capture are exactly 0 .. imageCount-1, the
\* count it returns.
C30_CountMatchesFiles ==
  (lastCall.op = "stopObjectScan" /\ photogrammetryCapture.captureDirectory # <<>>) =>
    /\ lastCall.scan.vertexCount = photogrammetryCapture.imageCount
    /\ C30_CompleteIndices(photogrammetryCapture.captureDirectory[1])
         = 0..(photogrammetryCapture.imageCount - 1)

\* C27 (Spec): in the raycast variant pointNormals holds at least as many
\* elements as accumulatedPoints in every state, pointCameraTransforms does
\* so while isScanning, and no frame ends in the trap of a removeFirst.
C27_EvictionNeverOverRemoves ==
  variant = "raycast" =>
    /\ Len(pointNormals) >= Len(accumulatedPoints)
    /\ isScanning => Len(pointCameraTransforms) >= Len(accumulatedPoints)
    /\ ~(trapped /\ lastCall.op = "frame")

\* a scanning frame of the raycast variant evicted points while the arrays
\* of normals and transforms were longer than the cloud
C27_Evicted ==
  /\ variant = "raycast" /\ isScanning /\ lastCall.op = "frame"
  /\ Len(accumulatedPoints) = ScanCapRaycast
  /\ Len(hist) > Len(accumulatedPoints)
  /\ Len(pointNormals) > Len(accumulatedPoints)
  /\ Len(pointCameraTransforms) > Len(accumulatedPoints)

\* C28 (GeoSpec): when an export triangulates with the camera poses, the
\* summed view direction and the directions of right and adjustedUp are not
\* zero (their normalize is defined) and the three are mutually orthogonal.
C28_BasisDefined ==
  (/\ lastCall.op = "exportScanAsOBJ" /\ variant = "raycast"
   /\ UsesPoseAware(Positions(accumulatedPoints), pointCameraTransforms)) =>
    LET V == SumViewDir(pointCameraTransforms)
    IN  /\ V # Zero3
        /\ RightDir(V) # Zero3
        /\ AdjustedUpDir(V) # Zero3
        /\ Dot(RightDir(V), V) = 0
        /\ Dot(AdjustedUpDir(V), V) = 0
        /\ Dot(RightDir(V), AdjustedUpDir(V)) = 0

\* the three vertex indices of a written face line
C29_VertexSet(face) == {face[1][1], face[2][1], face[3][1]}

\* C29 (GeoSpec): no two faces of an export of the raycast variant have the
\* same set of three vertex indices, with or without camera poses.
C29_NoDuplicateFaces ==
  (lastCall.op = "exportScanAsOBJ" /\ variant = "raycast") =>
    \A k, l \in 1..Len(lastCall.obj.f) :
      k # l => C29_VertexSet(lastCall.obj.f[k]) # C29_VertexSet(lastCall.obj.f[l])

\* C26 (QueueSpec): what stopObjectScan, exportScanAsOBJ and the
\* visualization read of the three arrays is what the last completed handler
\* left in them, the shape detection works on the copy made when a frame
\* callback had finished with the arrays, and while a frame callback is
\* under way no handler runs but the shape detection on processingQueue.
C26_ReadersAtBatchBoundary ==
  /\ queues.observed.seen = queues.observed.boundary
  /\ queues.detected.seen = queues.detected.boundary
  /\ queues.frame.pc # 0 => lastCall.op \in {"frame", "detectShapes"}

\* a reader has read the arrays of a scan and a later frame callback is in
\* the middle of its batch: the cloud is longer than the array of normals
C26_ReadThenMidBatch ==
  /\ variant = "raycast"
  /\ queues.observed.by \in {"stopObjectScan", "exportScanAsOBJ"}
  /\ queues.observed.seen[1] # <<>>
  /\ queues.frame.pc # 0
  /\ Len(accumulatedPoints) > Len(pointNormals)
=============================================================================
